---- MODULE Spec2Model ----
(***************************************************************************)
(* A model of tinytag (src/tinytag/tinytag.py): the Tag data model with    *)
(* its _set_field / _update merge rules, the text front-ends of the        *)
(* parsers that feed it, the FLAC metadata-block loop with a leading       *)
(* ID3v2 tag, and the dispatcher TinyTag.get.                              *)
(*                                                                         *)
(* Text is modelled as sequences of code points and file contents as       *)
(* sequences of byte values, so that splitting, stripping, decoding,       *)
(* lower-casing and suffix / pattern matching are computed as the code     *)
(* computes them.                                                          *)
(***************************************************************************)
EXTENDS Integers, Sequences, FiniteSets, TLC

VARIABLES
    tag,      \* the Tag being populated (self): [core, extra, images]
    sub,      \* the Tag of a delegated parser (id3 / oggtag), merged by _update
    id3,      \* _Flac._parse_tag: the local id3, [present, t] (None while not present)
    ops,      \* number of field writes made so far
    lastOp,   \* the operation that produced the current state, with its inputs
    pc,       \* position inside the running handler
    call,     \* TinyTag.get: the arguments and the source of the running call
    fh,       \* TinyTag.get: the byte source [opened_here, closed, header_reads]
    outcome   \* TinyTag.get: what the caller receives [kind, parser, tag]

vars == <<tag, sub, id3, ops, lastOp, pc, call, fh, outcome>>

----------------------------------------------------------------------------
(* Bounds of the model *)

\* longest text / byte string drawn as an input
MaxLen == 3
\* most field writes in one behaviour
MaxOps == 2
\* largest integer drawn as an input
MaxInt == 2

----------------------------------------------------------------------------
(* Python values *)

PyNone == [t |-> "None"]
PyStr(s) == [t |-> "str", v |-> s]
PyInt(n) == [t |-> "int", v |-> n]

\* isinstance(value, str)
IsStr(x) == x.t = "str"

\* a float that is the quotient n / d of two integers, d # 0: v is its
\* numerator and d its denominator, with the sign carried by v
PyFloat(n, d) ==
    [t |-> "float", v |-> IF d < 0 THEN 0 - n ELSE n, d |-> IF d < 0 THEN 0 - d ELSE d]

\* the truth value Python gives to None, a str, an int and a float
Truthy(x) ==
    CASE x.t = "None" -> FALSE
      [] x.t = "str" -> x.v # <<>>
      [] x.t = "int" -> x.v # 0
      [] x.t = "float" -> x.v # 0

----------------------------------------------------------------------------
(* Text: sequences of code points.  0 is NUL, 97 is "a". *)

NUL == 0

SeqsUpTo(S, n) == UNION {[1..k -> S] : k \in 0..n}

\* text inputs: every string over {NUL, "a"} of at most MaxLen characters
Strings == SeqsUpTo({NUL, 97}, MaxLen)

Contains(seq, x) == \E i \in 1..Len(seq) : seq[i] = x

\* index of the first NUL of s, 0 when there is none
FirstNul(s) ==
    IF \E i \in 1..Len(s) : s[i] = NUL
    THEN CHOOSE i \in 1..Len(s) : s[i] = NUL /\ \A j \in 1..(i - 1) : s[j] # NUL
    ELSE 0

\* s.split('\x00')
RECURSIVE SplitNul(_)
SplitNul(s) ==
    LET i == FirstNul(s)
    IN IF i = 0 THEN <<s>>
       ELSE <<SubSeq(s, 1, i - 1)>> \o SplitNul(SubSeq(s, i + 1, Len(s)))

\* s.strip('\x00')
RECURSIVE LStripNul(_)
LStripNul(s) == IF s # <<>> /\ s[1] = NUL THEN LStripNul(Tail(s)) ELSE s

RECURSIVE RStripNul(_)
RStripNul(s) ==
    IF s # <<>> /\ s[Len(s)] = NUL THEN RStripNul(SubSeq(s, 1, Len(s) - 1)) ELSE s

Unpad(s) == RStripNul(LStripNul(s))

----------------------------------------------------------------------------
(* The Tag aggregate *)

\* public attributes assigned by TinyTag.__init__, in assignment order
\* (the order in which _update walks other.__dict__); extra and images follow
PublicOrder ==
    << "filename", "filesize", "duration", "channels", "bitrate", "bitdepth",
       "samplerate", "artist", "albumartist", "composer", "album", "disc",
       "disc_total", "title", "track", "track_total", "genre", "year", "comment" >>

PublicFields == {PublicOrder[i] : i \in 1..Len(PublicOrder)}

StrFields ==
    {"artist", "albumartist", "composer", "album", "title", "genre", "year", "comment"}

IntFields == {"disc", "disc_total", "track", "track_total"}

AudioFields == {"duration", "channels", "bitrate", "bitdepth", "samplerate"}

PrivateAttrs ==
    {"filehandler", "default_encoding", "parse_duration", "parse_tags",
     "load_image", "tags_parsed"}

\* an attribute name or extra key: `us` leading underscores, then `name`
Plain(name) == [us |-> 0, name |-> name]
Underscore(key) == [key EXCEPT !.us = @ + 1]

\* the keys of self.__dict__ after TinyTag.__init__
InstanceDict ==
    {Plain(f) : f \in PublicFields \cup {"extra", "images"}}
        \cup {Underscore(Plain(p)) : p \in PrivateAttrs}

\* the fieldname argument of _set_field: 'title' or 'extra.<key>'
CoreField(name) == [extra |-> FALSE, key |-> Plain(name)]
ExtraField(key) == [extra |-> TRUE, key |-> key]

EmptyDict == [k \in {} |-> <<>>]

Put(d, k, v) == [x \in (DOMAIN d) \cup {k} |-> IF x = k THEN v ELSE d[x]]

\* dict.get(key, [])
GetList(d, k) == IF k \in DOMAIN d THEN d[k] ELSE <<>>

ImageSlots == {"front_cover", "back_cover", "leaflet", "media", "other"}

ImageSlotOrder == << "front_cover", "back_cover", "leaflet", "media", "other" >>

\* Images.__init__
EmptyImages == [slots |-> [s \in ImageSlots |-> <<>>], extra |-> EmptyDict]

\* TinyTag.__init__
EmptyTag ==
    [core |-> [f \in PublicFields |-> IF f = "filesize" THEN PyInt(0) ELSE PyNone],
     extra |-> EmptyDict,
     images |-> EmptyImages]

----------------------------------------------------------------------------
(* Images._set_field and Images._update *)

\* fieldname is [extra, name]: 'front_cover' or 'extra.<name>'
ImagesSetField(imgs, fieldname, image) ==
    IF fieldname.extra
    THEN [imgs EXCEPT !.extra =
            Put(imgs.extra, fieldname.name, Append(GetList(imgs.extra, fieldname.name), image))]
    ELSE [imgs EXCEPT !.slots =
            Put(imgs.slots, fieldname.name, Append(GetList(imgs.slots, fieldname.name), image))]

RECURSIVE ImagesAddAll(_, _, _, _)
ImagesAddAll(imgs, fieldname, list, i) ==
    IF i > Len(list) THEN imgs
    ELSE ImagesAddAll(ImagesSetField(imgs, fieldname, list[i]), fieldname, list, i + 1)

RECURSIVE ImagesUpdateSlots(_, _, _)
ImagesUpdateSlots(imgs, other, i) ==
    IF i > Len(ImageSlotOrder) THEN imgs
    ELSE LET s == ImageSlotOrder[i]
         IN ImagesUpdateSlots(
                ImagesAddAll(imgs, [extra |-> FALSE, name |-> s], other.slots[s], 1),
                other, i + 1)

RECURSIVE ImagesUpdateExtra(_, _, _)
ImagesUpdateExtra(imgs, other, keys) ==
    IF keys = {} THEN imgs
    ELSE LET k == CHOOSE x \in keys : TRUE
         IN ImagesUpdateExtra(
                ImagesAddAll(imgs, [extra |-> TRUE, name |-> k], other.extra[k], 1),
                other, keys \ {k})

ImagesUpdate(imgs, other) ==
    ImagesUpdateExtra(ImagesUpdateSlots(imgs, other, 1), other, DOMAIN other.extra)

----------------------------------------------------------------------------
(* TinyTag._set_field *)

\* an extra branch without the `fieldname in self.__dict__` test
SetExtraField_NoPrefix(t, key, value, check_conflict) ==
    LET extra_values == GetList(t.extra, key)
    IN IF ~IsStr(value) \/ Contains(extra_values, value.v)
       THEN t
       ELSE [t EXCEPT !.extra = Put(t.extra, key, Append(extra_values, value.v))]

\* an extra branch without the `value in extra_values` test
SetExtraField_Duplicates(t, key, value, check_conflict) ==
    LET k == IF check_conflict /\ key \in InstanceDict THEN Underscore(key) ELSE key
    IN IF ~IsStr(value)
       THEN t
       ELSE [t EXCEPT !.extra = Put(t.extra, k, Append(GetList(t.extra, k), value.v))]

\* the branch taken for fieldname 'extra.<key>'
SetExtraField(t, key, value, check_conflict) ==
    LET k == IF check_conflict /\ key \in InstanceDict THEN Underscore(key) ELSE key
        extra_values == GetList(t.extra, k)
    IN IF ~IsStr(value) \/ Contains(extra_values, value.v)
       THEN t
       ELSE [t EXCEPT !.extra = Put(t.extra, k, Append(extra_values, value.v))]

\* the loop over new_value.split('\x00'): segment i goes to extra when it is
\* not the first one, or when a different old value is already set
RECURSIVE SetSegments(_, _, _, _, _)
SetSegments(t, name, old_value, values, index) ==
    IF index > Len(values) THEN t
    ELSE LET i_value == PyStr(values[index])
             to_extra == index > 1 \/ (Truthy(old_value) /\ i_value # old_value)
         IN SetSegments(
                IF to_extra THEN SetExtraField(t, Plain(name), i_value, FALSE) ELSE t,
                name, old_value, values, index + 1)

\* a _set_field whose string branch lacks `if old_value: return`
SetCoreField_LastWins(t, name, value) ==
    LET old_value == t.core[name]
    IN IF IsStr(value)
       THEN LET values == SplitNul(value.v)
                t1 == SetSegments(t, name, old_value, values, 1)
            IN [t1 EXCEPT !.core[name] = PyStr(values[1])]
       ELSE IF ~Truthy(value) /\ Truthy(old_value)
            THEN t
            ELSE [t EXCEPT !.core[name] = value]

\* the branch taken for a core fieldname
SetCoreField(t, name, value) ==
    LET old_value == t.core[name]
    IN IF IsStr(value)
       THEN LET values == SplitNul(value.v)
                t1 == SetSegments(t, name, old_value, values, 1)
            IN IF Truthy(old_value) THEN t1
               ELSE [t1 EXCEPT !.core[name] = PyStr(values[1])]
       ELSE IF ~Truthy(value) /\ Truthy(old_value)
            THEN t
            ELSE [t EXCEPT !.core[name] = value]

SetField(t, fieldname, value, check_conflict) ==
    IF fieldname.extra
    THEN SetExtraField(t, fieldname.key, value, check_conflict)
    ELSE SetCoreField(t, fieldname.key.name, value)

----------------------------------------------------------------------------
(* TinyTag._update *)

RECURSIVE UpdateCore(_, _, _)
UpdateCore(t, other, i) ==
    IF i > Len(PublicOrder) THEN t
    ELSE LET key == PublicOrder[i]
             value == other.core[key]
         IN UpdateCore(
                IF value # PyNone THEN SetField(t, CoreField(key), value, TRUE) ELSE t,
                other, i + 1)

RECURSIVE UpdateExtraValues(_, _, _, _)
UpdateExtraValues(t, key, list, i) ==
    IF i > Len(list) THEN t
    ELSE UpdateExtraValues(
            SetField(t, ExtraField(key), PyStr(list[i]), FALSE), key, list, i + 1)

RECURSIVE UpdateExtra(_, _, _)
UpdateExtra(t, other, keys) ==
    IF keys = {} THEN t
    ELSE LET k == CHOOSE x \in keys : TRUE
         IN UpdateExtra(UpdateExtraValues(t, k, other.extra[k], 1), other, keys \ {k})

Update(t, other) ==
    LET t1 == UpdateExtra(UpdateCore(t, other, 1), other, DOMAIN other.extra)
    IN [t1 EXCEPT !.images = ImagesUpdate(t1.images, other.images)]

----------------------------------------------------------------------------
(* Values of the variables a specification does not use *)

NoId3 == [present |-> FALSE, t |-> EmptyTag]
NoCall == [active |-> FALSE]
NoFile == [opened_here |-> FALSE, closed |-> FALSE, header_reads |-> 0]
NoOutcome == [kind |-> "pending"]

----------------------------------------------------------------------------------------------------------------------------------------
(* The tag store: a parser writes fields of its Tag with _set_field; now    *)
(* and then it constructs a delegated parser, lets it write its own Tag,    *)
(* and merges that Tag into its own with _update (as _Wave and _Aiff do     *)
(* with an embedded ID3 chunk, and _Ogg with an inline FLAC stream).        *)

\* fields written: a core string field, a core integer field, an extra key
StoreFields ==
    {CoreField("title"), CoreField("track"), ExtraField(Plain("lyrics")),
     ExtraField(Plain("title"))}

\* the values a parser hands to _set_field for a field of that kind; a custom
\* key that is also an attribute name is drawn with two texts
StoreValues(f) ==
    IF f.extra /\ f.key \in InstanceDict THEN {PyStr(<<97>>), PyStr(<<97, 97>>)}
    ELSE IF f.extra THEN {PyStr(s) : s \in Strings} \cup {PyInt(1)}
    ELSE IF f.key.name \in IntFields THEN {PyInt(n) : n \in 0..MaxInt}
    ELSE {PyStr(s) : s \in Strings}

StoreInit ==
    /\ tag = EmptyTag
    /\ sub = EmptyTag
    /\ id3 = NoId3
    /\ ops = 0
    /\ lastOp = [op |-> "init"]
    /\ pc = "self"
    /\ call = NoCall
    /\ fh = NoFile
    /\ outcome = NoOutcome

\* self._set_field(fieldname, value)
StoreSetField(f, v) ==
    /\ pc = "self"
    /\ ops < MaxOps
    /\ tag' = SetField(tag, f, v, TRUE)
    /\ ops' = ops + 1
    /\ lastOp' = [op |-> "set_field", on |-> "tag", field |-> f, value |-> v]
    /\ UNCHANGED <<sub, id3, pc, call, fh, outcome>>

\* a delegated parser is constructed (id3 = _ID3(), flactag = _Flac())
StoreNewSub ==
    /\ pc = "self"
    /\ ops < MaxOps
    /\ sub' = EmptyTag
    /\ pc' = "sub"
    /\ lastOp' = [op |-> "new_sub"]
    /\ UNCHANGED <<tag, id3, ops, call, fh, outcome>>

\* the delegated parser's _set_field(fieldname, value)
StoreSetFieldSub(f, v) ==
    /\ pc = "sub"
    /\ ops < MaxOps
    /\ sub' = SetField(sub, f, v, TRUE)
    /\ ops' = ops + 1
    /\ lastOp' = [op |-> "set_field", on |-> "sub", field |-> f, value |-> v]
    /\ UNCHANGED <<tag, id3, pc, call, fh, outcome>>

\* self._update(other), after which the delegated parser is dropped
StoreUpdate ==
    /\ pc = "sub"
    /\ tag' = Update(tag, sub)
    /\ sub' = EmptyTag
    /\ pc' = "self"
    /\ lastOp' = [op |-> "update", other |-> sub]
    /\ UNCHANGED <<id3, ops, call, fh, outcome>>

StoreNext ==
    \/ \E f \in StoreFields : \E v \in StoreValues(f) : StoreSetField(f, v)
    \/ StoreNewSub
    \/ \E f \in StoreFields : \E v \in StoreValues(f) : StoreSetFieldSub(f, v)
    \/ StoreUpdate

SpecStore == StoreInit /\ [][StoreNext]_vars

----------------------------------------------------------------------------
(* Text and byte-string helpers of the parsers *)

Take(s, n) == SubSeq(s, 1, IF n < Len(s) THEN n ELSE Len(s))
Drop(s, n) == SubSeq(s, n + 1, Len(s))

\* index of the first occurrence of c in s, 0 when there is none
IndexOf(s, c) ==
    IF \E i \in 1..Len(s) : s[i] = c
    THEN CHOOSE i \in 1..Len(s) : s[i] = c /\ \A j \in 1..(i - 1) : s[j] # c
    ELSE 0

\* s.split(c, 1)[0]
BeforeFirst(s, c) == IF IndexOf(s, c) = 0 THEN s ELSE SubSeq(s, 1, IndexOf(s, c) - 1)

\* s.split(c, 1)[1], for s containing c
AfterFirst(s, c) == Drop(s, IndexOf(s, c))

\* str.isdecimal() on text whose digits are the ASCII digits '0'..'9'
IsDecimal(s) == s # <<>> /\ \A i \in 1..Len(s) : s[i] \in 48..57

\* int(s) for decimal s
RECURSIVE ParseInt(_)
ParseInt(s) ==
    IF s = <<>> THEN 0
    ELSE ParseInt(SubSeq(s, 1, Len(s) - 1)) * 10 + (s[Len(s)] - 48)

\* bytes.lstrip(b'\x00')
LStripNulBytes(b) == LStripNul(b)

\* bytes.isalpha(): non-empty and all ASCII letters
IsAlpha(b) ==
    b # <<>> /\ \A i \in 1..Len(b) : b[i] \in (65..90) \cup (97..122)

\* str.lower() on ASCII text
Lower(s) == [i \in 1..Len(s) |-> IF s[i] \in 65..90 THEN s[i] + 32 ELSE s[i]]

\* str.endswith(suffix)
EndsWith(s, suffix) ==
    Len(suffix) <= Len(s) /\ SubSeq(s, Len(s) - Len(suffix) + 1, Len(s)) = suffix

\* bytes.decode('ISO-8859-1'): every byte is its own code point
DecodeLatin1(b) == b

\* bytes.decode('utf-8', 'replace') on the bytes the model draws: ASCII bytes
\* are their own code points; the bytes 0xFE and 0xFF occur in no valid
\* UTF-8 sequence and are each replaced by U+FFFD
DecodeUtf8(b) == [i \in 1..Len(b) |-> IF b[i] < 128 THEN b[i] ELSE 65533]

\* bytes.decode('UTF-16le' / 'UTF-16be', 'replace'): one code unit per byte
\* pair, a trailing odd byte is replaced by U+FFFD
DecodeUtf16(b, big_endian) ==
    LET n == Len(b) \div 2
        unit(i) == IF big_endian THEN b[2 * i - 1] * 256 + b[2 * i]
                   ELSE b[2 * i] * 256 + b[2 * i - 1]
    IN [i \in 1..(n + (Len(b) % 2)) |-> IF i <= n THEN unit(i) ELSE 65533]

----------------------------------------------------------------------------
(* The text front-ends of the parsers: what each hands to _set_field *)

\* 'extra.<name>' as a field name
ExtraName(name) == ExtraField(Plain(name))

\* f'{fieldname}_total'
TotalOf(name) == IF name = "track" THEN "track_total" ELSE "disc_total"

\* str.lower() of the key and frame names the model draws
KeyLower(name) ==
    CASE name = "TITLE" -> "title"
      [] name = "Lyrics" -> "lyrics"
      [] name = "TIT3" -> "tit3"
      [] OTHER -> name

\* the track / disc handling shared by _parse_vorbis_comment and
\* _parse_frame: "n/total" is split, each part is stored when it is decimal
SetNumberField(t, name, value) ==
    LET has_total == name \in {"track", "disc"} /\ IndexOf(value, 47) # 0
        number == IF has_total THEN BeforeFirst(value, 47) ELSE value
        total == BeforeFirst(AfterFirst(value, 47), 47)
        t1 == IF has_total /\ IsDecimal(total)
              THEN SetField(t, CoreField(TotalOf(name)), PyInt(ParseInt(total)), TRUE)
              ELSE t
    IN IF IsDecimal(number)
       THEN SetField(t1, CoreField(name), PyInt(ParseInt(number)), TRUE)
       ELSE t1

RIFF_MAPPING ==
    [INAM |-> CoreField("title"), TITL |-> CoreField("title"),
     IPRD |-> CoreField("album"), IART |-> CoreField("artist"),
     IBPM |-> ExtraName("bpm"), ICMT |-> CoreField("comment"),
     IMUS |-> CoreField("composer"), ICOP |-> ExtraName("copyright"),
     ICRD |-> CoreField("year"), IGNR |-> CoreField("genre"),
     ILNG |-> ExtraName("language"), ISRC |-> ExtraName("isrc"),
     IPUB |-> ExtraName("publisher"), IPRT |-> CoreField("track"),
     ITRK |-> CoreField("track"), TRCK |-> CoreField("track"),
     IBSU |-> ExtraName("url"), YEAR |-> CoreField("year"),
     IWRI |-> ExtraName("lyricist"), IENC |-> ExtraName("encoded_by"),
     IMED |-> ExtraName("media")]

\* _Wave._parse_tag, one entry of a LIST/INFO chunk: field is the 4-byte
\* id, data the data_length bytes read after it
WaveInfoEntry(t, field, data) ==
    IF field \notin DOMAIN RIFF_MAPPING THEN t
    ELSE LET fieldname == RIFF_MAPPING[field]
             value == DecodeUtf8(BeforeFirst(data, NUL))
         IN IF fieldname = CoreField("track")
            THEN IF IsDecimal(value)
                 THEN SetField(t, fieldname, PyInt(ParseInt(value)), TRUE)
                 ELSE t
            ELSE SetField(t, fieldname, PyStr(value), TRUE)

AIFF_MAPPING ==
    ("NAME" :> CoreField("title")) @@ ("AUTH" :> CoreField("artist")) @@
    ("ANNO" :> CoreField("comment")) @@ ("(c) " :> ExtraName("copyright"))

\* _Aiff._parse_tag, one text chunk: data is the sub_chunk_size bytes read
AiffTextChunk(t, sub_chunk_id, data) ==
    IF sub_chunk_id \notin DOMAIN AIFF_MAPPING THEN t
    ELSE SetField(t, AIFF_MAPPING[sub_chunk_id], PyStr(Unpad(DecodeUtf8(data))), TRUE)

VORBIS_MAPPING ==
    [album |-> CoreField("album"), albumartist |-> CoreField("albumartist"),
     title |-> CoreField("title"), artist |-> CoreField("artist"),
     artists |-> CoreField("artist"), author |-> CoreField("artist"),
     date |-> CoreField("year"), tracknumber |-> CoreField("track"),
     tracktotal |-> CoreField("track_total"), totaltracks |-> CoreField("track_total"),
     discnumber |-> CoreField("disc"), disctotal |-> CoreField("disc_total"),
     totaldiscs |-> CoreField("disc_total"), genre |-> CoreField("genre"),
     description |-> CoreField("comment"), comment |-> CoreField("comment"),
     comments |-> CoreField("comment"), composer |-> CoreField("composer"),
     bpm |-> ExtraName("bpm"), copyright |-> ExtraName("copyright"),
     isrc |-> ExtraName("isrc"), lyrics |-> ExtraName("lyrics"),
     publisher |-> ExtraName("publisher"), language |-> ExtraName("language"),
     director |-> ExtraName("director"), website |-> ExtraName("url"),
     conductor |-> ExtraName("conductor"), lyricist |-> ExtraName("lyricist"),
     discsubtitle |-> ExtraName("set_subtitle"), setsubtitle |-> ExtraName("set_subtitle"),
     initialkey |-> ExtraName("initial_key"), key |-> ExtraName("initial_key"),
     encodedby |-> ExtraName("encoded_by"), encodersettings |-> ExtraName("encoder_settings"),
     media |-> ExtraName("media"), originaldate |-> ExtraName("original_date"),
     originalyear |-> ExtraName("original_year"), license |-> ExtraName("license"),
     barcode |-> ExtraName("barcode"), catalognumber |-> ExtraName("catalog_number")]

\* _Ogg._parse_vorbis_comment, one comment "key=value" (a comment without
\* '=' is skipped by the code): key is the text before the first '=',
\* value the bytes after it.  Image comments are not drawn.
VorbisComment(t, key, value_bytes) ==
    LET value == DecodeUtf8(value_bytes)
        key_lowercase == KeyLower(key)
        fieldname == IF key_lowercase \in DOMAIN VORBIS_MAPPING
                     THEN VORBIS_MAPPING[key_lowercase]
                     ELSE ExtraName(key_lowercase)
    IN IF ~fieldname.extra /\ fieldname.key.name \in IntFields
       THEN SetNumberField(t, fieldname.key.name, value)
       ELSE IF value # <<>> THEN SetField(t, fieldname, PyStr(value), TRUE) ELSE t

ID3_MAPPING ==
    [TRCK |-> CoreField("track"), TRK |-> CoreField("track"),
     TYER |-> CoreField("year"), TYE |-> CoreField("year"), TDRC |-> CoreField("year"),
     TALB |-> CoreField("album"), TAL |-> CoreField("album"),
     TPE1 |-> CoreField("artist"), TP1 |-> CoreField("artist"),
     TIT2 |-> CoreField("title"), TT2 |-> CoreField("title"),
     TPOS |-> CoreField("disc"), TPA |-> CoreField("disc"),
     TPE2 |-> CoreField("albumartist"), TP2 |-> CoreField("albumartist"),
     TCOM |-> CoreField("composer"), TCM |-> CoreField("composer"),
     TCON |-> CoreField("genre"), TCO |-> CoreField("genre"),
     WOAR |-> ExtraName("url"), WAR |-> ExtraName("url"),
     TSRC |-> ExtraName("isrc"), TRC |-> ExtraName("isrc"),
     TCOP |-> ExtraName("copyright"), TCR |-> ExtraName("copyright"),
     TBPM |-> ExtraName("bpm"), TBP |-> ExtraName("bpm"),
     TKEY |-> ExtraName("initial_key"), TKE |-> ExtraName("initial_key"),
     TLAN |-> ExtraName("language"), TLA |-> ExtraName("language"),
     TPUB |-> ExtraName("publisher"), TPB |-> ExtraName("publisher"),
     USLT |-> ExtraName("lyrics"), ULT |-> ExtraName("lyrics"),
     TPE3 |-> ExtraName("conductor"), TP3 |-> ExtraName("conductor"),
     TEXT |-> ExtraName("lyricist"), TXT |-> ExtraName("lyricist"),
     TSST |-> ExtraName("set_subtitle"),
     TENC |-> ExtraName("encoded_by"), TEN |-> ExtraName("encoded_by"),
     TSSE |-> ExtraName("encoder_settings"), TSS |-> ExtraName("encoder_settings"),
     TMED |-> ExtraName("media"), TMT |-> ExtraName("media"),
     TDOR |-> ExtraName("original_date"),
     TORY |-> ExtraName("original_year"), TOR |-> ExtraName("original_year"),
     WCOP |-> ExtraName("license")]

DISALLOWED_FRAME_IDS == {"PRIV", "RGAD", "GEOB", "GEO"}

\* the two UTF-16 byte order marks
BOMs == {<<254, 255>>, <<255, 254>>}

\* _ID3._decode_string with the default encoding ISO-8859-1
DecodeString(bytestr, language) ==
    LET first_byte == Take(bytestr, 1)
        rest == Tail(bytestr)
        \* \x01: remove language (but leave BOM)
        lang1(b) == IF Take(Drop(b, 3), 2) \in BOMs THEN Drop(b, 3) ELSE b
        lang2(b) == IF IsAlpha(Take(b, 3)) THEN Drop(b, 3) ELSE b
        \* \x01: read byte order mark to determine endianness
        nobom(b) == IF Take(b, 2) \in BOMs
                    THEN IF Len(b) % 2 = 0 THEN Drop(b, 2)
                         ELSE SubSeq(b, 3, Len(b) - 1)
                    ELSE b
        \* \x01: strip the bom if it exists
        final(b) == IF Take(b, 4) = <<0, 0, 255, 254>> THEN Drop(b, 4) ELSE b
        \* remove language of the remaining encodings
        stripped(body) == IF language /\ IsAlpha(Take(body, 3)) THEN Drop(body, 3) ELSE body
        utf16(b1) == DecodeUtf16(stripped(final(nobom(b1))), Take(b1, 2) = <<254, 255>>)
        decoded == CASE first_byte = <<0>> -> DecodeLatin1(stripped(rest))
                     [] first_byte = <<1>> ->
                            utf16(IF language THEN LStripNulBytes(lang2(lang1(rest))) ELSE rest)
                     [] first_byte = <<2>> ->
                            DecodeUtf16(stripped(IF Len(bytestr) % 2 = 0
                                                 THEN SubSeq(bytestr, 2, Len(bytestr) - 1)
                                                 ELSE rest), FALSE)
                     [] first_byte = <<3>> -> DecodeUtf8(stripped(rest))
                     [] OTHER -> DecodeLatin1(stripped(bytestr))
    IN Unpad(decoded)

\* the names of the ID3v1 genres, by genre id + 1
ID3V1_GENRES ==
    <<<<66, 108, 117, 101, 115>>, <<67, 108, 97, 115, 115, 105, 99, 32, 82, 111, 99, 107>>,
      <<67, 111, 117, 110, 116, 114, 121>>, <<68, 97, 110, 99, 101>>, <<68, 105, 115, 99, 111>>,
      <<70, 117, 110, 107>>, <<71, 114, 117, 110, 103, 101>>, <<72, 105, 112, 45, 72, 111, 112>>,
      <<74, 97, 122, 122>>, <<77, 101, 116, 97, 108>>, <<78, 101, 119, 32, 65, 103, 101>>,
      <<79, 108, 100, 105, 101, 115>>, <<79, 116, 104, 101, 114>>, <<80, 111, 112>>,
      <<82, 38, 66>>, <<82, 97, 112>>, <<82, 101, 103, 103, 97, 101>>, <<82, 111, 99, 107>>,
      <<84, 101, 99, 104, 110, 111>>, <<73, 110, 100, 117, 115, 116, 114, 105, 97, 108>>,
      <<65, 108, 116, 101, 114, 110, 97, 116, 105, 118, 101>>, <<83, 107, 97>>,
      <<68, 101, 97, 116, 104, 32, 77, 101, 116, 97, 108>>, <<80, 114, 97, 110, 107, 115>>,
      <<83, 111, 117, 110, 100, 116, 114, 97, 99, 107>>,
      <<69, 117, 114, 111, 45, 84, 101, 99, 104, 110, 111>>, <<65, 109, 98, 105, 101, 110, 116>>,
      <<84, 114, 105, 112, 45, 72, 111, 112>>, <<86, 111, 99, 97, 108>>,
      <<74, 97, 122, 122, 43, 70, 117, 110, 107>>, <<70, 117, 115, 105, 111, 110>>,
      <<84, 114, 97, 110, 99, 101>>, <<67, 108, 97, 115, 115, 105, 99, 97, 108>>,
      <<73, 110, 115, 116, 114, 117, 109, 101, 110, 116, 97, 108>>, <<65, 99, 105, 100>>,
      <<72, 111, 117, 115, 101>>, <<71, 97, 109, 101>>,
      <<83, 111, 117, 110, 100, 32, 67, 108, 105, 112>>, <<71, 111, 115, 112, 101, 108>>,
      <<78, 111, 105, 115, 101>>, <<65, 108, 116, 101, 114, 110, 82, 111, 99, 107>>,
      <<66, 97, 115, 115>>, <<83, 111, 117, 108>>, <<80, 117, 110, 107>>,
      <<83, 112, 97, 99, 101>>, <<77, 101, 100, 105, 116, 97, 116, 105, 118, 101>>,
      <<73, 110, 115, 116, 114, 117, 109, 101, 110, 116, 97, 108, 32, 80, 111, 112>>,
      <<73, 110, 115, 116, 114, 117, 109, 101, 110, 116, 97, 108, 32, 82, 111, 99, 107>>,
      <<69, 116, 104, 110, 105, 99>>, <<71, 111, 116, 104, 105, 99>>,
      <<68, 97, 114, 107, 119, 97, 118, 101>>,
      <<84, 101, 99, 104, 110, 111, 45, 73, 110, 100, 117, 115, 116, 114, 105, 97, 108>>,
      <<69, 108, 101, 99, 116, 114, 111, 110, 105, 99>>, <<80, 111, 112, 45, 70, 111, 108, 107>>,
      <<69, 117, 114, 111, 100, 97, 110, 99, 101>>, <<68, 114, 101, 97, 109>>,
      <<83, 111, 117, 116, 104, 101, 114, 110, 32, 82, 111, 99, 107>>,
      <<67, 111, 109, 101, 100, 121>>, <<67, 117, 108, 116>>, <<71, 97, 110, 103, 115, 116, 97>>,
      <<84, 111, 112, 32, 52, 48>>,
      <<67, 104, 114, 105, 115, 116, 105, 97, 110, 32, 82, 97, 112>>,
      <<80, 111, 112, 47, 70, 117, 110, 107>>, <<74, 117, 110, 103, 108, 101>>,
      <<78, 97, 116, 105, 118, 101, 32, 65, 109, 101, 114, 105, 99, 97, 110>>,
      <<67, 97, 98, 97, 114, 101, 116>>, <<78, 101, 119, 32, 87, 97, 118, 101>>,
      <<80, 115, 121, 99, 104, 97, 100, 101, 108, 105, 99>>, <<82, 97, 118, 101>>,
      <<83, 104, 111, 119, 116, 117, 110, 101, 115>>, <<84, 114, 97, 105, 108, 101, 114>>,
      <<76, 111, 45, 70, 105>>, <<84, 114, 105, 98, 97, 108>>,
      <<65, 99, 105, 100, 32, 80, 117, 110, 107>>, <<65, 99, 105, 100, 32, 74, 97, 122, 122>>,
      <<80, 111, 108, 107, 97>>, <<82, 101, 116, 114, 111>>, <<77, 117, 115, 105, 99, 97, 108>>,
      <<82, 111, 99, 107, 32, 38, 32, 82, 111, 108, 108>>,
      <<72, 97, 114, 100, 32, 82, 111, 99, 107>>, <<70, 111, 108, 107>>,
      <<70, 111, 108, 107, 45, 82, 111, 99, 107>>,
      <<78, 97, 116, 105, 111, 110, 97, 108, 32, 70, 111, 108, 107>>, <<83, 119, 105, 110, 103>>,
      <<70, 97, 115, 116, 32, 70, 117, 115, 105, 111, 110>>, <<66, 101, 98, 111, 98>>,
      <<76, 97, 116, 105, 110>>, <<82, 101, 118, 105, 118, 97, 108>>,
      <<67, 101, 108, 116, 105, 99>>, <<66, 108, 117, 101, 103, 114, 97, 115, 115>>,
      <<65, 118, 97, 110, 116, 103, 97, 114, 100, 101>>,
      <<71, 111, 116, 104, 105, 99, 32, 82, 111, 99, 107>>,
      <<80, 114, 111, 103, 114, 101, 115, 115, 105, 118, 101, 32, 82, 111, 99, 107>>,
      <<80, 115, 121, 99, 104, 101, 100, 101, 108, 105, 99, 32, 82, 111, 99, 107>>,
      <<83, 121, 109, 112, 104, 111, 110, 105, 99, 32, 82, 111, 99, 107>>,
      <<83, 108, 111, 119, 32, 82, 111, 99, 107>>, <<66, 105, 103, 32, 66, 97, 110, 100>>,
      <<67, 104, 111, 114, 117, 115>>,
      <<69, 97, 115, 121, 32, 108, 105, 115, 116, 101, 110, 105, 110, 103>>,
      <<65, 99, 111, 117, 115, 116, 105, 99>>, <<72, 117, 109, 111, 117, 114>>,
      <<83, 112, 101, 101, 99, 104>>, <<67, 104, 97, 110, 115, 111, 110>>,
      <<79, 112, 101, 114, 97>>, <<67, 104, 97, 109, 98, 101, 114, 32, 77, 117, 115, 105, 99>>,
      <<83, 111, 110, 97, 116, 97>>, <<83, 121, 109, 112, 104, 111, 110, 121>>,
      <<66, 111, 111, 116, 121, 32, 66, 97, 115, 115>>, <<80, 114, 105, 109, 117, 115>>,
      <<80, 111, 114, 110, 32, 71, 114, 111, 111, 118, 101>>, <<83, 97, 116, 105, 114, 101>>,
      <<83, 108, 111, 119, 32, 74, 97, 109>>, <<67, 108, 117, 98>>, <<84, 97, 110, 103, 111>>,
      <<83, 97, 109, 98, 97>>, <<70, 111, 108, 107, 108, 111, 114, 101>>,
      <<66, 97, 108, 108, 97, 100>>, <<80, 111, 119, 101, 114, 32, 66, 97, 108, 108, 97, 100>>,
      <<82, 104, 121, 116, 104, 109, 105, 99, 32, 83, 111, 117, 108>>,
      <<70, 114, 101, 101, 115, 116, 121, 108, 101>>, <<68, 117, 101, 116>>,
      <<80, 117, 110, 107, 32, 82, 111, 99, 107>>, <<68, 114, 117, 109, 32, 83, 111, 108, 111>>,
      <<65, 32, 99, 97, 112, 101, 108, 108, 97>>,
      <<69, 117, 114, 111, 45, 72, 111, 117, 115, 101>>,
      <<68, 97, 110, 99, 101, 32, 72, 97, 108, 108>>, <<71, 111, 97>>,
      <<68, 114, 117, 109, 32, 38, 32, 66, 97, 115, 115>>,
      <<67, 108, 117, 98, 45, 72, 111, 117, 115, 101>>,
      <<72, 97, 114, 100, 99, 111, 114, 101, 32, 84, 101, 99, 104, 110, 111>>,
      <<84, 101, 114, 114, 111, 114>>, <<73, 110, 100, 105, 101>>,
      <<66, 114, 105, 116, 80, 111, 112>>, <<>>,
      <<80, 111, 108, 115, 107, 32, 80, 117, 110, 107>>, <<66, 101, 97, 116>>,
      <<67, 104, 114, 105, 115, 116, 105, 97, 110, 32, 71, 97, 110, 103, 115, 116, 97, 32, 82, 97, 112>>,
      <<72, 101, 97, 118, 121, 32, 77, 101, 116, 97, 108>>,
      <<66, 108, 97, 99, 107, 32, 77, 101, 116, 97, 108>>,
      <<67, 111, 110, 116, 101, 109, 112, 111, 114, 97, 114, 121, 32, 67, 104, 114, 105, 115, 116, 105, 97, 110>>,
      <<67, 104, 114, 105, 115, 116, 105, 97, 110, 32, 82, 111, 99, 107>>,
      <<77, 101, 114, 101, 110, 103, 117, 101>>, <<83, 97, 108, 115, 97>>,
      <<84, 104, 114, 97, 115, 104, 32, 77, 101, 116, 97, 108>>, <<65, 110, 105, 109, 101>>,
      <<74, 112, 111, 112>>, <<83, 121, 110, 116, 104, 112, 111, 112>>,
      <<65, 98, 115, 116, 114, 97, 99, 116>>, <<65, 114, 116, 32, 82, 111, 99, 107>>,
      <<66, 97, 114, 111, 113, 117, 101>>, <<66, 104, 97, 110, 103, 114, 97>>,
      <<66, 105, 103, 32, 66, 101, 97, 116>>, <<66, 114, 101, 97, 107, 98, 101, 97, 116>>,
      <<67, 104, 105, 108, 108, 111, 117, 116>>, <<68, 111, 119, 110, 116, 101, 109, 112, 111>>,
      <<68, 117, 98>>, <<69, 66, 77>>, <<69, 99, 108, 101, 99, 116, 105, 99>>,
      <<69, 108, 101, 99, 116, 114, 111>>,
      <<69, 108, 101, 99, 116, 114, 111, 99, 108, 97, 115, 104>>, <<69, 109, 111>>,
      <<69, 120, 112, 101, 114, 105, 109, 101, 110, 116, 97, 108>>,
      <<71, 97, 114, 97, 103, 101>>, <<73, 108, 108, 98, 105, 101, 110, 116>>,
      <<73, 110, 100, 117, 115, 116, 114, 111, 45, 71, 111, 116, 104>>,
      <<74, 97, 109, 32, 66, 97, 110, 100>>, <<75, 114, 97, 117, 116, 114, 111, 99, 107>>,
      <<76, 101, 102, 116, 102, 105, 101, 108, 100>>, <<76, 111, 117, 110, 103, 101>>,
      <<77, 97, 116, 104, 32, 82, 111, 99, 107>>,
      <<78, 101, 119, 32, 82, 111, 109, 97, 110, 116, 105, 99>>,
      <<78, 117, 45, 66, 114, 101, 97, 107, 122>>, <<80, 111, 115, 116, 45, 80, 117, 110, 107>>,
      <<80, 111, 115, 116, 45, 82, 111, 99, 107>>, <<80, 115, 121, 116, 114, 97, 110, 99, 101>>,
      <<83, 104, 111, 101, 103, 97, 122, 101>>, <<83, 112, 97, 99, 101, 32, 82, 111, 99, 107>>,
      <<84, 114, 111, 112, 32, 82, 111, 99, 107>>,
      <<87, 111, 114, 108, 100, 32, 77, 117, 115, 105, 99>>,
      <<78, 101, 111, 99, 108, 97, 115, 115, 105, 99, 97, 108>>,
      <<65, 117, 100, 105, 111, 98, 111, 111, 107>>,
      <<65, 117, 100, 105, 111, 32, 84, 104, 101, 97, 116, 114, 101>>,
      <<78, 101, 117, 101, 32, 68, 101, 117, 116, 115, 99, 104, 101, 32, 87, 101, 108, 108, 101>>,
      <<80, 111, 100, 99, 97, 115, 116>>, <<73, 110, 100, 105, 101, 32, 82, 111, 99, 107>>,
      <<71, 45, 70, 117, 110, 107>>, <<68, 117, 98, 115, 116, 101, 112>>,
      <<71, 97, 114, 97, 103, 101, 32, 82, 111, 99, 107>>,
      <<80, 115, 121, 98, 105, 101, 110, 116>>>>

\* _ID3._parse_frame for a frame of frame_size > 0 with tags being parsed:
\* content is the frame_size bytes read.  Comment (COMM), custom (TXXX) and
\* image (APIC) frames are not drawn.  A genre that is a decimal number, or
\* starts with one in parentheses, names an ID3v1 genre (255 stands for none)
ParseFrame(t, frame_id, content) ==
    LET end_pos(value) == IndexOf(value, 41) - 1
        parens_text(value) == SubSeq(value, 2, end_pos(value))
        genre_id(value) ==
            IF IsDecimal(value) THEN ParseInt(value)
            ELSE IF Take(value, 1) = <<40>> /\ end_pos(value) > 0
                        /\ IsDecimal(parens_text(value))
                 THEN ParseInt(parens_text(value))
                 ELSE 255
        genre(id, value) == IF id < Len(ID3V1_GENRES) THEN ID3V1_GENRES[id + 1] ELSE value
        store(fieldname, value) ==
            IF value = <<>> THEN t
            ELSE IF fieldname \in {CoreField("track"), CoreField("disc")}
                 THEN SetNumberField(t, fieldname.key.name, value)
                 ELSE IF fieldname = CoreField("genre")
                      THEN SetField(t, fieldname, PyStr(genre(genre_id(value), value)), TRUE)
                      ELSE SetField(t, fieldname, PyStr(value), TRUE)
    IN IF frame_id \in DOMAIN ID3_MAPPING
       THEN store(ID3_MAPPING[frame_id],
                  DecodeString(content, ID3_MAPPING[frame_id] = ExtraName("lyrics")))
       ELSE IF frame_id \notin DISALLOWED_FRAME_IDS
            THEN store(ExtraName(KeyLower(frame_id)), DecodeString(content, FALSE))
            ELSE t

----------------------------------------------------------------------------
(* The parsers at work: one file of one format, read entry by entry *)

\* most metadata entries (INFO entries, text chunks, comments, frames) read
\* from one file
MaxEntries == 1

\* byte strings drawn as number fields: the characters '1' and '/'
Digits == SeqsUpTo({49, 47}, MaxLen)

ParserClasses == {"_Wave", "_Aiff", "_Ogg", "_ID3"}

WaveFields == {"INAM", "IPRT", "ICOP", "JUNK"}
AiffChunks == {"NAME", "(c) ", "SSND"}
VorbisKeys == {"title", "TITLE", "tracknumber", "lyrics"}
FrameIds == {"TIT2", "TRCK", "USLT", "TIT3", "PRIV", "TCON"}

\* the data drawn for an entry of the given target
EntryData(is_number) == IF is_number THEN Digits ELSE Strings

\* genres: texts of the characters '1', '8', '(', ')' and 'a', and the ids at
\* the end of the list of genres, plain and in parentheses
GenreTexts ==
    SeqsUpTo({49, 56, 40, 41, 97}, MaxLen)
        \cup {<<49, 56, 56>>, <<49, 56, 57>>, <<40, 49, 56, 56, 41>>, <<40, 49, 56, 57, 41>>,
              <<40, 49, 41, 97>>, <<97, 40, 49, 41>>, <<40, 49, 41, 40, 56, 41>>}

\* frame contents: an encoding byte (ISO-8859-1) and the data, and "a" in
\* UTF-16 with a little-endian byte order mark
FrameContents(frame_id) ==
    {<<0>> \o s : s \in IF frame_id = "TCON" THEN GenreTexts
                         ELSE EntryData(frame_id = "TRCK")}
        \cup {<<1, 255, 254, 97, 0>>}

ParsersInit ==
    /\ tag = EmptyTag
    /\ sub = EmptyTag
    /\ id3 = NoId3
    /\ ops = 0
    /\ lastOp = [op |-> "init"]
    /\ pc = "file"
    /\ call = NoCall
    /\ fh = NoFile
    /\ outcome = NoOutcome

\* parser_class() is constructed and _parse_tag starts on the file
ParsersStart(parser) ==
    /\ pc = "file"
    /\ pc' = parser
    /\ lastOp' = [op |-> "_parse_tag", parser |-> parser]
    /\ UNCHANGED <<tag, sub, id3, ops, call, fh, outcome>>

ParsersWaveEntry(field, data) ==
    /\ pc = "_Wave"
    /\ ops < MaxEntries
    /\ tag' = WaveInfoEntry(tag, field, data)
    /\ ops' = ops + 1
    /\ lastOp' = [op |-> "info_entry", field |-> field, data |-> data]
    /\ UNCHANGED <<sub, id3, pc, call, fh, outcome>>

ParsersAiffChunk(sub_chunk_id, data) ==
    /\ pc = "_Aiff"
    /\ ops < MaxEntries
    /\ tag' = AiffTextChunk(tag, sub_chunk_id, data)
    /\ ops' = ops + 1
    /\ lastOp' = [op |-> "text_chunk", field |-> sub_chunk_id, data |-> data]
    /\ UNCHANGED <<sub, id3, pc, call, fh, outcome>>

ParsersVorbisComment(key, value) ==
    /\ pc = "_Ogg"
    /\ ops < MaxEntries
    /\ tag' = VorbisComment(tag, key, value)
    /\ ops' = ops + 1
    /\ lastOp' = [op |-> "vorbis_comment", field |-> key, data |-> value]
    /\ UNCHANGED <<sub, id3, pc, call, fh, outcome>>

ParsersFrame(frame_id, content) ==
    /\ pc = "_ID3"
    /\ ops < MaxEntries
    /\ tag' = ParseFrame(tag, frame_id, content)
    /\ ops' = ops + 1
    /\ lastOp' = [op |-> "frame", field |-> frame_id, data |-> content]
    /\ UNCHANGED <<sub, id3, pc, call, fh, outcome>>

ParsersNext ==
    \/ \E parser \in ParserClasses : ParsersStart(parser)
    \/ \E field \in WaveFields : \E data \in EntryData(field = "IPRT") :
          ParsersWaveEntry(field, data)
    \/ \E id \in AiffChunks : \E data \in Strings : ParsersAiffChunk(id, data)
    \/ \E key \in VorbisKeys : \E value \in EntryData(key = "tracknumber") :
          ParsersVorbisComment(key, value)
    \/ \E frame_id \in FrameIds : \E content \in FrameContents(frame_id) :
          ParsersFrame(frame_id, content)

SpecParsers == ParsersInit /\ [][ParsersNext]_vars

----------------------------------------------------------------------------
(* _Flac._parse_tag: an optional leading ID3v2 tag, the metadata blocks, *)
(* and the merge of the ID3 values after the last block                  *)

\* texts and numbers drawn for the frames and comments of a FLAC file
FlacText == {s \in Strings : s # <<>> /\ ~Contains(s, NUL)}
FlacNumbers == {s \in Digits : IsDecimal(s)} \cup {<<49, 47, 49>>}

FlacFrameIds == {"TIT2", "TRCK"}
FlacVorbisKeys == {"title", "tracknumber"}
FlacHeaders == {"ID3", "fLaC", "RIFF"}

FlacInit ==
    /\ tag = EmptyTag
    /\ sub = EmptyTag
    /\ id3 = NoId3
    /\ ops = 0
    /\ lastOp = [op |-> "init"]
    /\ pc = "header"
    /\ call = NoCall
    /\ fh = NoFile
    /\ outcome = NoOutcome

\* header = fh.read(4): a leading ID3 tag makes id3 = _ID3(); without one
\* the header must be the fLaC magic
FlacReadHeader(header) ==
    /\ pc = "header"
    /\ id3' = IF header = "ID3" THEN [present |-> TRUE, t |-> EmptyTag] ELSE id3
    /\ pc' = CASE header = "ID3" -> "id3"
               [] header = "fLaC" -> "blocks"
               [] OTHER -> "ParseError"
    /\ lastOp' = [op |-> "read_header", header |-> header]
    /\ UNCHANGED <<tag, sub, ops, call, fh, outcome>>

\* id3._parse_id3v2(fh): one frame of the leading ID3 tag
FlacId3Frame(frame_id, content) ==
    /\ pc = "id3"
    /\ ops < MaxEntries
    /\ id3' = [id3 EXCEPT !.t = ParseFrame(id3.t, frame_id, content)]
    /\ ops' = ops + 1
    /\ lastOp' = [op |-> "frame", field |-> frame_id, data |-> content]
    /\ UNCHANGED <<tag, sub, pc, call, fh, outcome>>

\* header = fh.read(4) after the ID3 tag: it should be fLaC
FlacAfterId3(header) ==
    /\ pc = "id3"
    /\ pc' = IF header = "fLaC" THEN "blocks" ELSE "ParseError"
    /\ ops' = 0
    /\ lastOp' = [op |-> "read_header", header |-> header]
    /\ UNCHANGED <<tag, sub, id3, call, fh, outcome>>

\* a METADATA_VORBIS_COMMENT block starts: oggtag = _Ogg()
FlacVorbisBlock ==
    /\ pc = "blocks"
    /\ ops < MaxEntries
    /\ sub' = EmptyTag
    /\ pc' = "vorbis"
    /\ lastOp' = [op |-> "vorbis_block"]
    /\ UNCHANGED <<tag, id3, ops, call, fh, outcome>>

\* oggtag._parse_vorbis_comment(fh): one comment of the block
FlacVorbisComment(key, value) ==
    /\ pc = "vorbis"
    /\ ops < MaxEntries
    /\ sub' = VorbisComment(sub, key, value)
    /\ ops' = ops + 1
    /\ lastOp' = [op |-> "vorbis_comment", field |-> key, data |-> value]
    /\ UNCHANGED <<tag, id3, pc, call, fh, outcome>>

\* the block is read: self._update(oggtag)
FlacUpdateVorbis ==
    /\ pc = "vorbis"
    /\ tag' = Update(tag, sub)
    /\ sub' = EmptyTag
    /\ pc' = "blocks"
    /\ lastOp' = [op |-> "update", other |-> sub]
    /\ UNCHANGED <<id3, ops, call, fh, outcome>>

\* after the last block: if id3 is not None: self._update(id3)
FlacUpdateId3 ==
    /\ pc = "blocks"
    /\ tag' = IF id3.present THEN Update(tag, id3.t) ELSE tag
    /\ pc' = "done"
    /\ lastOp' = [op |-> "update_id3", other |-> id3]
    /\ UNCHANGED <<sub, id3, ops, call, fh, outcome>>

FlacNext ==
    \/ \E header \in FlacHeaders : FlacReadHeader(header)
    \/ \E frame_id \in FlacFrameIds :
          \E data \in (IF frame_id = "TRCK" THEN FlacNumbers ELSE FlacText) :
              FlacId3Frame(frame_id, <<0>> \o data)
    \/ \E header \in FlacHeaders : FlacAfterId3(header)
    \/ FlacVorbisBlock
    \/ \E key \in FlacVorbisKeys :
          \E value \in (IF key = "tracknumber" THEN FlacNumbers ELSE FlacText) :
              FlacVorbisComment(key, value)
    \/ FlacUpdateVorbis
    \/ FlacUpdateId3

SpecFlac == FlacInit /\ [][FlacNext]_vars

----------------------------------------------------------------------------
(* TinyTag._load: the passes _parse_tag and _determine_duration of each   *)
(* parser, one section of the file (chunk, block, packet, object, atom,   *)
(* frame) at a time, under the flags _parse_tags and _parse_duration      *)

\* struct.unpack of a signed field of `bits` bits (b, h) whose unsigned
\* reading is raw
Signed(raw, bits) == IF raw >= 2 ^ (bits - 1) THEN raw - 2 ^ bits ELSE raw

\* struct.unpack of a signed field of 32 or 64 bits (i, q) whose low 16 bits
\* read low and whose higher bytes are all 0x00 (ones = FALSE) or all 0xFF
SignedWide(ones, low) == IF ones THEN low - 65536 ELSE low

\* the result of handling one section: the Tag, the private attributes of the
\* parser, and the exception raised ("None": none)
Parsed(t, st, exc) == [t |-> t, st |-> st, exc |-> exc]

\* the private attributes before _load: _tags_parsed, _max_samplenum, the
\* Ogg flags check_flac_second_packet / check_speex_second_packet, whether a
\* loop has hit its break, whether the first bytes of the file are consumed,
\* the leading ID3 tag of a FLAC file, and the MPEG frames counted
NoPrivate ==
    [tags_parsed |-> FALSE, max_samplenum |-> 0,
     check_flac_second_packet |-> FALSE, check_speex_second_packet |-> FALSE,
     stopped |-> FALSE, begun |-> FALSE, id3 |-> NoId3, frames |-> 0]

\* id3 = _ID3(); id3._load(tags=True, duration=False); self._update(id3)
UpdateFromId3(t, frame_id, content) == Update(t, ParseFrame(EmptyTag, frame_id, content))

\* _Wave._parse_tag, one chunk
WaveChunk(t, f, st, c) ==
    CASE c.id = "fmt " /\ f.duration ->
            LET bitdepth == IF c.bitdepth = 0 THEN 1 ELSE c.bitdepth
            IN Parsed([t EXCEPT
                          !.core["bitrate"] = PyFloat(c.samplerate * c.channels * bitdepth, 1000),
                          !.core["channels"] = PyInt(c.channels),
                          !.core["samplerate"] = PyInt(c.samplerate),
                          !.core["bitdepth"] = PyInt(bitdepth)], st, "None")
      [] c.id = "data" /\ f.duration ->
            IF PyNone \in {t.core["channels"], t.core["samplerate"], t.core["bitdepth"]}
            THEN Parsed(t, st, "None")
            ELSE IF t.core["channels"].v = 0 \/ t.core["samplerate"].v = 0
                 THEN Parsed(t, st, "ZeroDivisionError")
                 ELSE Parsed([t EXCEPT !.core["duration"] =
                                 PyFloat(8 * c.size,
                                         t.core["channels"].v * t.core["samplerate"].v
                                             * t.core["bitdepth"].v)], st, "None")
      [] c.id = "LIST" /\ f.tags -> Parsed(WaveInfoEntry(t, c.field, c.data), st, "None")
      [] c.id \in {"id3 ", "ID3 "} /\ f.tags ->
            Parsed(UpdateFromId3(t, c.frame_id, c.content), st, "None")
      [] OTHER -> Parsed(t, st, "None")

\* _Aiff._parse_tag, one chunk.  The sample rate is the value decoded from
\* the 80-bit extended float (never negative: mantissa and exponent are read
\* unsigned); c.overflow says that it is beyond the range of a float, so that
\* the arithmetic on it raises the OverflowError the code catches
AiffChunk(t, f, st, c) ==
    CASE c.id \in DOMAIN AIFF_MAPPING /\ f.tags ->
            Parsed(AiffTextChunk(t, c.id, c.data), st, "None")
      [] c.id = "COMM" /\ f.duration ->
            LET channels == Signed(c.channels, 16)
                bitdepth == Signed(c.bitdepth, 16)
                t1 == [t EXCEPT !.core["channels"] = PyInt(channels),
                                !.core["bitdepth"] = PyInt(bitdepth)]
            IN IF c.overflow THEN Parsed(t1, st, "None")
               ELSE IF c.samplerate = 0 THEN Parsed(t1, st, "ZeroDivisionError")
               ELSE Parsed([t1 EXCEPT
                               !.core["samplerate"] = PyInt(c.samplerate),
                               !.core["duration"] = PyFloat(c.num_frames, c.samplerate),
                               !.core["bitrate"] =
                                   PyFloat(c.samplerate * channels * bitdepth, 1000)],
                           st, "None")
      [] c.id \in {"id3 ", "ID3 "} /\ f.tags ->
            Parsed(UpdateFromId3(t, c.frame_id, c.content), st, "None")
      [] OTHER -> Parsed(t, st, "None")

\* _Flac._parse_tag, the leading ID3 tag or one metadata block.  A STREAMINFO
\* block shorter than 34 bytes (read when _parse_duration is set) and a block
\* of type 127 end the loop, and so does, once it is handled, a block whose
\* header has the last-block bit (c.last)
FlacBlock(t, f, st, c) ==
    LET is_last_block == "last" \in DOMAIN c /\ c.last
        st0 == [st EXCEPT !.begun = TRUE]
        \* if is_last_block: break, once the block is handled
        st1 == [st0 EXCEPT !.stopped = @ \/ is_last_block]
    IN CASE c.id = "ID3" /\ ~st.begun ->
               Parsed(t, [st1 EXCEPT !.id3 =
                             [present |-> TRUE,
                              t |-> IF f.tags THEN ParseFrame(st.id3.t, c.frame_id, c.content)
                                    ELSE st.id3.t]], "None")
         [] c.id = "STREAMINFO" /\ f.duration ->
               IF c.size < 34 THEN Parsed(t, [st1 EXCEPT !.stopped = TRUE], "None")
               ELSE LET t1 == [t EXCEPT !.core["samplerate"] = PyInt(c.samplerate),
                                        !.core["channels"] = PyInt(c.channel_bits + 1),
                                        !.core["bitdepth"] = PyInt(c.depth_bits + 1)]
                        t2 == [t1 EXCEPT !.core["duration"] =
                                  PyFloat(c.total_samples, c.samplerate)]
                    IN IF c.samplerate = 0 THEN Parsed(t1, st0, "ZeroDivisionError")
                       ELSE IF c.total_samples > 0
                            THEN Parsed([t2 EXCEPT !.core["bitrate"] =
                                            PyFloat(t.core["filesize"].v * c.samplerate * 8,
                                                    c.total_samples * 1000)], st1, "None")
                            ELSE Parsed(t2, st1, "None")
         [] c.id = "VORBIS_COMMENT" /\ f.tags ->
               Parsed(Update(t, VorbisComment(EmptyTag, c.key, c.value)), st1, "None")
         [] c.id = "INVALID" -> Parsed(t, [st1 EXCEPT !.stopped = TRUE], "None")
         [] OTHER -> Parsed(t, st1, "None")

\* _Ogg._parse_tag, one packet of a page whose granule position is c.pos
\* (_parse_pages keeps the maximum in _max_samplenum).  A packet that starts
\* with no known magic is c.id = "other": c.block_type is its first byte
\* & 0x7f, c.comment its leading length-prefixed string, c.key = c.value the
\* comment that follows.  The nested _Flac of an Ogg FLAC packet parses the
\* metadata block c.block
OggPacket(t, f, st, c) ==
    LET st0 == [st EXCEPT !.max_samplenum = IF c.pos > @ THEN c.pos ELSE @]
        comment(tt) == IF f.tags THEN VorbisComment(tt, c.key, c.value) ELSE tt
        flactag == FlacBlock([EmptyTag EXCEPT !.core["filesize"] = t.core["filesize"]],
                             f, [NoPrivate EXCEPT !.begun = TRUE], c.block)
    IN CASE st.stopped -> Parsed(t, st0, "None")
         [] c.id = "\\x01vorbis" ->
               Parsed(IF f.duration
                      THEN [t EXCEPT !.core["channels"] = PyInt(c.channels),
                                     !.core["samplerate"] = PyInt(SignedWide(c.ones, c.low)),
                                     !.core["bitrate"] = PyFloat(c.bitrate, 1000)]
                      ELSE t, st0, "None")
         [] c.id \in {"\\x03vorbis", "OpusTags"} -> Parsed(comment(t), st0, "None")
         [] c.id = "OpusHead" ->
               Parsed(IF f.duration /\ c.version \div 16 = 0
                      THEN [t EXCEPT !.core["channels"] = PyInt(c.channels),
                                     !.core["samplerate"] = PyInt(48000)]
                      ELSE t, st0, "None")
         [] c.id = "\\x7fFLAC" ->
               IF flactag.exc # "None" THEN Parsed(t, st0, flactag.exc)
               ELSE Parsed(Update(t, flactag.t),
                           [st0 EXCEPT !.check_flac_second_packet = TRUE], "None")
         [] st.check_flac_second_packet ->
               Parsed(IF f.tags /\ c.id = "other" /\ c.block_type = 4 THEN comment(t) ELSE t,
                      [st0 EXCEPT !.check_flac_second_packet = FALSE], "None")
         [] c.id = "Speex   " ->
               Parsed(IF f.duration
                      THEN [t EXCEPT !.core["samplerate"] = PyInt(SignedWide(c.ones, c.low)),
                                     !.core["channels"] = PyInt(SignedWide(c.ones, c.channels)),
                                     !.core["bitrate"] = PyInt(c.bitrate)]
                      ELSE t, [st0 EXCEPT !.check_speex_second_packet = TRUE], "None")
         [] st.check_speex_second_packet ->
               Parsed(IF f.tags
                      THEN comment(SetField(t, CoreField("comment"),
                                            PyStr(DecodeUtf8(c.comment)), TRUE))
                      ELSE t, [st0 EXCEPT !.check_speex_second_packet = FALSE], "None")
         [] OTHER -> Parsed(t, [st0 EXCEPT !.stopped = TRUE], "None")

\* _Wma._parse_tag, one ASF object.  Of a content description object one
\* field is drawn, of an extended one a descriptor of value type 0 (a string)
\* or 1 (bytes, skipped); c.field is the field name the descriptor name maps
\* to.  An object of size 0 or of a size beyond the file size is c.id =
\* "invalid"; the size of every other object lies within the file
WmaObject(t, f, st, c) ==
    LET value == Unpad(DecodeUtf16(c.data, FALSE))
    IN CASE c.id = "invalid"
                 /\ (c.object_size = 0 \/ c.object_size > t.core["filesize"].v) ->
               Parsed(t, [st EXCEPT !.stopped = TRUE], "None")
         [] c.id = "content_description" /\ f.tags ->
               Parsed(IF c.private \/ value = <<>> THEN t
                      ELSE SetField(t, c.field, PyStr(value), TRUE), st, "None")
         [] c.id = "extended_content_description" /\ f.tags ->
               Parsed(IF c.value_type = 1 THEN t
                      ELSE IF c.field \in {CoreField("track"), CoreField("disc")}
                           THEN IF IsDecimal(value)
                                THEN SetField(t, c.field, PyInt(ParseInt(value)), TRUE)
                                ELSE t
                           ELSE IF value # <<>> THEN SetField(t, c.field, PyStr(value), TRUE)
                                ELSE t, st, "None")
         [] c.id = "file_property" /\ f.duration ->
               LET ticks == c.play_duration - 10000 * c.preroll
               IN Parsed([t EXCEPT !.core["duration"] =
                             PyFloat(IF ticks > 0 THEN ticks ELSE 0, 10000000)], st, "None")
         [] c.id = "stream_properties" /\ f.duration ->
               Parsed(IF c.audio
                      THEN LET t1 == [t EXCEPT
                                         !.core["channels"] = PyInt(c.channels),
                                         !.core["samplerate"] = PyInt(c.samplerate),
                                         !.core["bitrate"] =
                                             PyFloat(c.avg_bytes_per_second * 8, 1000)]
                           IN IF c.codec_id_format_tag = 355
                              THEN [t1 EXCEPT !.core["bitdepth"] = PyInt(c.bits_per_sample)]
                              ELSE t1
                      ELSE t, st, "None")
         [] OTHER -> Parsed(t, st, "None")

\* _MP4._traverse_atoms, one leaf atom the traversal reaches: _parse_tag walks
\* _META_DATA_TREE and _determine_duration walks _AUDIO_DATA_TREE, so each pass
\* skips the atoms of the other.  A data atom is drawn with
\* type 1 (UTF-8) or an unknown type; mvhd with version 0 (unsigned 32-bit
\* duration) or 1 (signed 64-bit); gnre with its unsigned 16-bit value, the
\* subscript idx = value - 1 counting from the end of the tuple when negative
Mp4Atom(t, pass, st, c) ==
    LET set(tt, name, v) == SetField(tt, CoreField(name), v, TRUE)
    IN CASE pass = "parse_tag" /\ c.id = "\\xa9nam" ->
               Parsed(IF c.data_type = 1 THEN set(t, "title", PyStr(DecodeUtf8(c.data)))
                      ELSE t, st, "None")
         [] pass = "parse_tag" /\ c.id = "trkn" ->
               Parsed(set(set(t, "track", PyInt(c.number)), "track_total", PyInt(c.total)),
                      st, "None")
         [] pass = "parse_tag" /\ c.id = "gnre" ->
               LET idx == c.value - 1
                   n == Len(ID3V1_GENRES)
               IN Parsed(IF idx < n
                         THEN set(t, "genre",
                                  PyStr(ID3V1_GENRES[IF idx < 0 THEN n + idx + 1 ELSE idx + 1]))
                         ELSE t, st, "None")
         [] pass = "determine_duration" /\ c.id = "mvhd" ->
               LET duration == IF c.version = 0 THEN c.low ELSE SignedWide(c.ones, c.low)
               IN IF c.time_scale = 0 THEN Parsed(t, st, "ZeroDivisionError")
                  ELSE Parsed(set(t, "duration", PyFloat(duration, c.time_scale)), st, "None")
         [] pass = "determine_duration" /\ c.id = "alac" ->
               Parsed(set(set(set(set(t, "channels", PyInt(Signed(c.channels, 8))),
                                  "samplerate", PyInt(c.samplerate)),
                              "bitrate", PyFloat(c.avg_bitrate, 1000)),
                          "bitdepth", PyInt(Signed(c.bitdepth, 8))), st, "None")
         [] OTHER -> Parsed(t, st, "None")

\* _ID3._parse_tag, one ID3v2 frame, and _ID3._determine_duration, one MPEG
\* frame header of version 1 (mpeg_id 3) or of the reserved version (1): a
\* header that fails the validity test is skipped.  The file holds the ten
\* bytes _parse_id3v2_header unpacks
Id3Segment(t, pass, st, c) ==
    CASE pass = "parse_tag" /\ c.id = "frame" ->
            Parsed(ParseFrame(t, c.frame_id, c.content), st, "None")
      [] pass = "determine_duration" /\ c.id = "mpeg" ->
            IF c.mpeg_id = 1 \/ c.sr_id = 3 THEN Parsed(t, st, "None")
            ELSE Parsed([t EXCEPT
                            !.core["channels"] = PyInt(<<2, 2, 2, 1>>[c.channel_mode + 1]),
                            !.core["samplerate"] =
                                PyInt(<<44100, 48000, 32000>>[c.sr_id + 1])],
                        [st EXCEPT !.frames = @ + 1], "None")
      [] OTHER -> Parsed(t, st, "None")

\* the end of _determine_duration: _Ogg divides the last granule position by
\* the sample rate unless a duration is already set or there is no sample
\* rate; _ID3 derives bitrate and duration from the frames it counted
DetermineDurationEnd(parser, t, st) ==
    CASE parser = "_Ogg" ->
            IF t.core["duration"] # PyNone \/ ~Truthy(t.core["samplerate"]) THEN t
            ELSE [t EXCEPT !.core["duration"] =
                     PyFloat(st.max_samplenum, t.core["samplerate"].v)]
      [] parser = "_ID3" ->
            LET t1 == IF st.frames > 0
                      THEN [t EXCEPT !.core["bitrate"] = PyFloat(128 * st.frames, st.frames)]
                      ELSE t
            IN IF Truthy(t1.core["samplerate"])
               THEN [t1 EXCEPT !.core["duration"] =
                        PyFloat(st.frames * 1152, t1.core["samplerate"].v)]
               ELSE t1
      [] OTHER -> t

\* the section a pass of the parser reads next, handled by that parser's loop;
\* a loop that has hit its break reads no further section
ParseSection(parser, pass, t, f, st, c) ==
    IF st.stopped /\ parser # "_Ogg" THEN Parsed(t, st, "None")
    ELSE CASE parser = "_Wave" -> WaveChunk(t, f, st, c)
           [] parser = "_Aiff" -> AiffChunk(t, f, st, c)
           [] parser = "_Flac" -> FlacBlock(t, f, st, c)
           [] parser = "_Ogg" -> OggPacket(t, f, st, c)
           [] parser = "_Wma" -> WmaObject(t, f, st, c)
           [] parser = "_MP4" -> Mp4Atom(t, pass, st, c)
           [] parser = "_ID3" -> Id3Segment(t, pass, st, c)

\* the parsers whose _determine_duration is `if not self._tags_parsed:
\* self._parse_tag(fh)`: one pass reads tags and audio properties
SinglePass == {"_Wave", "_Aiff", "_Flac", "_Ogg", "_Wma"}

\* self._parse_tags = tags; self._parse_duration = duration
LoadFlags_TagsAlways(tags, duration) == [tags |-> TRUE, duration |-> duration]

LoadFlags_DurationAlways(tags, duration) == [tags |-> tags, duration |-> TRUE]

LoadFlags(tags, duration) == [tags |-> tags, duration |-> duration]

----------------------------------------------------------------------------
(* Parser selection: file extensions and magic bytes *)

\* the parser classes, and TinyTag itself as the generic entry point
Parsers == {"_ID3", "_Ogg", "_Wave", "_Flac", "_Wma", "_MP4", "_Aiff"}

\* _file_extension_mapping, in the order of the dict: the extensions (as
\* code points, with their dot) and the parser class of each entry
file_extension_mapping ==
    <<
      \* .mp1 .mp2 .mp3
      [ext |-> {<<46, 109, 112, 49>>, <<46, 109, 112, 50>>, <<46, 109, 112, 51>>}, tagclass |-> "_ID3"],
      \* .oga .ogg .opus .spx
      [ext |-> {<<46, 111, 103, 97>>, <<46, 111, 103, 103>>, <<46, 111, 112, 117, 115>>, <<46, 115, 112, 120>>}, tagclass |-> "_Ogg"],
      \* .wav
      [ext |-> {<<46, 119, 97, 118>>}, tagclass |-> "_Wave"],
      \* .flac
      [ext |-> {<<46, 102, 108, 97, 99>>}, tagclass |-> "_Flac"],
      \* .wma
      [ext |-> {<<46, 119, 109, 97>>}, tagclass |-> "_Wma"],
      \* .m4b .m4a .m4r .m4v .mp4 .aax .aaxc
      [ext |-> {<<46, 109, 52, 98>>, <<46, 109, 52, 97>>, <<46, 109, 52, 114>>, <<46, 109, 52, 118>>, <<46, 109, 112, 52>>, <<46, 97, 97, 120>>, <<46, 97, 97, 120, 99>>}, tagclass |-> "_MP4"],
      \* .aiff .aifc .aif .afc
      [ext |-> {<<46, 97, 105, 102, 102>>, <<46, 97, 105, 102, 99>>, <<46, 97, 105, 102>>, <<46, 97, 102, 99>>}, tagclass |-> "_Aiff"]
    >>

\* _get_parser_for_filename: the class of the first entry one of whose
\* extensions ends the lower-cased file name, None when there is none
RECURSIVE FirstExtension(_, _)
FirstExtension(filename, i) ==
    IF i > Len(file_extension_mapping) THEN "None"
    ELSE IF \E ext \in file_extension_mapping[i].ext : EndsWith(filename, ext)
         THEN file_extension_mapping[i].tagclass
         ELSE FirstExtension(filename, i + 1)

get_parser_for_filename_NoLower(filename) == FirstExtension(filename, 1)

get_parser_for_filename(filename) == FirstExtension(Lower(filename), 1)

\* '.' in a pattern
DOT == 256

\* _magic_bytes_mapping, in the order of the dict.  `anchored` tells whether
\* the pattern starts with '^' (one more character of the signature)
magic_bytes_mapping ==
    <<
      [sig |-> [anchored |-> TRUE, body |-> <<73, 68, 51>>], parser |-> "_ID3"],
      [sig |-> [anchored |-> TRUE, body |-> <<255, 251>>], parser |-> "_ID3"],
      [sig |-> [anchored |-> TRUE, body |-> <<79, 103, 103, 83, DOT, DOT, DOT, DOT, DOT, DOT, DOT, DOT, DOT, DOT, DOT, DOT, DOT, DOT, DOT, DOT, DOT, DOT, DOT, DOT, DOT, DOT, DOT, DOT, DOT, 70, 76, 65, 67>>], parser |-> "_Ogg"],
      [sig |-> [anchored |-> TRUE, body |-> <<79, 103, 103, 83, DOT, DOT, DOT, DOT, DOT, DOT, DOT, DOT, DOT, DOT, DOT, DOT, DOT, DOT, DOT, DOT, DOT, DOT, DOT, DOT, DOT, DOT, DOT, DOT, 79, 112, 117, 115>>], parser |-> "_Ogg"],
      [sig |-> [anchored |-> TRUE, body |-> <<79, 103, 103, 83, DOT, DOT, DOT, DOT, DOT, DOT, DOT, DOT, DOT, DOT, DOT, DOT, DOT, DOT, DOT, DOT, DOT, DOT, DOT, DOT, DOT, DOT, DOT, DOT, 83, 112, 101, 101, 120>>], parser |-> "_Ogg"],
      [sig |-> [anchored |-> TRUE, body |-> <<79, 103, 103, 83, DOT, DOT, DOT, DOT, DOT, DOT, DOT, DOT, DOT, DOT, DOT, DOT, DOT, DOT, DOT, DOT, DOT, DOT, DOT, DOT, DOT, DOT, DOT, DOT, DOT, 118, 111, 114, 98, 105, 115>>], parser |-> "_Ogg"],
      [sig |-> [anchored |-> TRUE, body |-> <<82, 73, 70, 70, DOT, DOT, DOT, DOT, 87, 65, 86, 69>>], parser |-> "_Wave"],
      [sig |-> [anchored |-> TRUE, body |-> <<102, 76, 97, 67>>], parser |-> "_Flac"],
      [sig |-> [anchored |-> TRUE, body |-> <<48, 38, 178, 117, 142, 102, 207, 17, 166, 217, 0, 170, 0, 98, 206, 108>>], parser |-> "_Wma"],
      [sig |-> [anchored |-> FALSE, body |-> <<DOT, DOT, DOT, DOT, 102, 116, 121, 112, 77, 52, 65>>], parser |-> "_MP4"],
      [sig |-> [anchored |-> FALSE, body |-> <<DOT, DOT, DOT, DOT, 102, 116, 121, 112, 97, 97, 120>>], parser |-> "_MP4"],
      [sig |-> [anchored |-> FALSE, body |-> <<DOT, DOT, DOT, DOT, 102, 116, 121, 112, 97, 97, 120, 99>>], parser |-> "_MP4"],
      [sig |-> [anchored |-> FALSE, body |-> <<255, 241>>], parser |-> "_MP4"],
      [sig |-> [anchored |-> TRUE, body |-> <<70, 79, 82, 77, DOT, DOT, DOT, DOT, 65, 73, 70, 70>>], parser |-> "_Aiff"],
      [sig |-> [anchored |-> TRUE, body |-> <<70, 79, 82, 77, DOT, DOT, DOT, DOT, 65, 73, 70, 67>>], parser |-> "_Aiff"]
    >>

\* len(sig)
SigLen(sig) == Len(sig.body) + (IF sig.anchored THEN 1 ELSE 0)

\* max(len(sig) for sig in _magic_bytes_mapping)
MaxSigLen ==
    CHOOSE n \in {SigLen(magic_bytes_mapping[i].sig) : i \in 1..Len(magic_bytes_mapping)} :
        \A i \in 1..Len(magic_bytes_mapping) : SigLen(magic_bytes_mapping[i].sig) <= n

\* re.match(magic, header): the pattern is tried at the start of header
\* only, with or without '^'; '.' matches any byte but the newline 0x0A
Match(sig, header) ==
    /\ Len(sig.body) <= Len(header)
    /\ \A i \in 1..Len(sig.body) :
          IF sig.body[i] = DOT THEN header[i] # 10 ELSE header[i] = sig.body[i]

RECURSIVE FirstMagic(_, _)
FirstMagic(header, i) ==
    IF i > Len(magic_bytes_mapping) THEN "None"
    ELSE IF Match(magic_bytes_mapping[i].sig, header)
         THEN magic_bytes_mapping[i].parser
         ELSE FirstMagic(header, i + 1)

\* _get_parser_for_file_handle: header = fh.read(max(len(sig) ...))
get_parser_for_file_handle(content) == FirstMagic(Take(content, MaxSigLen), 1)

----------------------------------------------------------------------------
(* TinyTag.get, the dispatcher *)

\* should_close_file = file_obj is None
ShouldCloseFile_WhenNamed(filename, file_obj) == Truthy(filename)

ShouldCloseFile(filename, file_obj) == ~file_obj

\* _get_parser_class: the class selected, or None for UnsupportedFormatError,
\* and the number of times the header of the file was read for it
get_parser_class_MagicFirst(cls, filename, content) ==
    IF cls # "TinyTag" THEN [parser |-> cls, header_reads |-> 0]
    ELSE IF get_parser_for_file_handle(content) # "None"
         THEN [parser |-> get_parser_for_file_handle(content), header_reads |-> 1]
         ELSE [parser |-> IF Truthy(filename) THEN get_parser_for_filename(filename.v)
                          ELSE "None",
               header_reads |-> 1]

get_parser_class(cls, filename, content) ==
    IF cls # "TinyTag" THEN [parser |-> cls, header_reads |-> 0]
    ELSE IF Truthy(filename) /\ get_parser_for_filename(filename.v) # "None"
         THEN [parser |-> get_parser_for_filename(filename.v), header_reads |-> 0]
         ELSE [parser |-> get_parser_for_file_handle(content), header_reads |-> 1]

\* the exception the first read of a parser raises on a file that does not
\* start as its format requires, "None" when the header passes
HeaderError(parser, content) ==
    CASE parser = "_Flac" ->
            IF Take(content, 3) = <<73, 68, 51>> THEN "None"
            ELSE IF Take(content, 4) # <<102, 76, 97, 67>> THEN "ParseError" ELSE "None"
      [] parser = "_Wave" ->
            IF Len(content) < 12 THEN "struct.error"
            ELSE IF Take(content, 4) # <<82, 73, 70, 70>>
                    \/ SubSeq(content, 9, 12) # <<87, 65, 86, 69>>
                 THEN "ParseError" ELSE "None"
      [] parser = "_Aiff" ->
            IF Len(content) < 12 THEN "struct.error"
            ELSE IF Take(content, 4) # <<70, 79, 82, 77>>
                    \/ SubSeq(content, 9, 12) \notin {<<65, 73, 70, 67>>, <<65, 73, 70, 70>>}
                 THEN "ParseError" ELSE "None"
      [] parser = "_Wma" ->
            IF Take(content, 16) # <<48, 38, 178, 117, 142, 102, 207, 17,
                                     166, 217, 0, 170, 0, 98, 206, 108>>
                    \/ Drop(Take(content, 30), Len(Take(content, 30)) - 1) # <<2>>
            THEN "ParseError" ELSE "None"
      [] parser = "_Ogg" ->
            IF Len(content) >= 27 /\ (Take(content, 4) # <<79, 103, 103, 83>> \/ content[5] # 0)
            THEN "ParseError" ELSE "None"
      [] OTHER -> "None"

\* exceptions a parser can raise further into a file: its own ParseError,
\* a truncated read, a division by zero, an index out of range
LoadExceptions == {"ParseError", "struct.error", "ZeroDivisionError", "IndexError"}

\* what tag._load(tags, duration) can end with on the file: "None" for a
\* normal return, else the exception raised.  Nothing is parsed when both
\* flags are off; a bad header decides the result; past the header the
\* result depends on the rest of the file
LoadOutcomes(parser, content, tags, duration) ==
    IF ~(tags \/ duration) THEN {"None"}
    ELSE IF HeaderError(parser, content) # "None" THEN {HeaderError(parser, content)}
         ELSE {"None"} \cup LoadExceptions

\* the except clause around _load: every Exception becomes ParseError
RaisedByLoad_IgnoreErrors(exc) == "None"

RaisedByLoad(exc) == IF exc = "None" THEN "None" ELSE "ParseError"

\* the file names drawn (None: no file name given; "": an empty name)
Filenames ==
    {PyNone, PyStr(<<>>),
     \* a.mp3
     PyStr(<<97, 46, 109, 112, 51>>),
     \* A.MP3
     PyStr(<<65, 46, 77, 80, 51>>),
     \* a.flac
     PyStr(<<97, 46, 102, 108, 97, 99>>),
     \* a.bogus
     PyStr(<<97, 46, 98, 111, 103, 117, 115>>),
     \* mp3
     PyStr(<<109, 112, 51>>),
     \* a.mp3.bak
     PyStr(<<97, 46, 109, 112, 51, 46, 98, 97, 107>>)}

\* the file contents drawn
Contents ==
    {
     \* empty
     <<>>,
     \* ID3
     <<73, 68, 51, 3>>,
     \* fLaC
     <<102, 76, 97, 67>>,
     \* RIFF....WAVE
     <<82, 73, 70, 70, 36, 0, 0, 0, 87, 65, 86, 69>>,
     \* RIFF with a newline in the size, WAVE
     <<82, 73, 70, 70, 10, 0, 0, 0, 87, 65, 86, 69>>,
     \* ....ftypM4A
     <<0, 0, 0, 32, 102, 116, 121, 112, 77, 52, 65>>,
     \* OggS page with the vorbis marker
     <<79, 103, 103, 83, 0, 2, 0, 0, 0, 0, 0, 0, 0, 0, 0, 0, 0, 0, 0, 0, 0, 0, 0, 0, 0, 0, 1, 30, 1, 118, 111, 114, 98, 105, 115>>,
     \* no known signature
     <<120, 120>>}
\* the classes get can be called on
GetClasses == {"TinyTag"} \cup Parsers

\* what a parser has stored when _load ends: nothing yet, or a title
LoadWrites == {"nothing", "title"}

GetInit ==
    /\ tag = EmptyTag
    /\ sub = EmptyTag
    /\ id3 = NoId3
    /\ ops = 0
    /\ lastOp = [op |-> "init"]
    /\ pc = "idle"
    /\ call = NoCall
    /\ fh = NoFile
    /\ outcome = NoOutcome

\* cls.get(filename, tags, duration, file_obj=file_obj) is called on a file
\* with the given content: the source is opened from the name when no
\* file_obj is passed; with neither, ValueError is raised
GetCall(cls, filename, file_obj, content, tags, duration) ==
    LET should_close_file == ShouldCloseFile(filename, file_obj)
        opens == Truthy(filename) /\ ~file_obj
        has_source == file_obj \/ opens
    IN /\ pc = "idle"
       /\ call' = [active |-> TRUE, cls |-> cls, filename |-> filename,
                   file_obj |-> file_obj, content |-> content,
                   tags |-> tags, duration |-> duration,
                   should_close_file |-> should_close_file,
                   filesize |-> Len(content), parser_class |-> "None",
                   load_raised |-> "None", raised |-> "None"]
       /\ fh' = [opened_here |-> opens, closed |-> FALSE, header_reads |-> 0]
       /\ pc' = IF has_source THEN "try" ELSE "done"
       /\ outcome' = IF has_source THEN outcome
                     ELSE [kind |-> "ValueError", tag |-> PyNone]
       /\ lastOp' = [op |-> "get", cls |-> cls]
       /\ UNCHANGED <<tag, sub, id3, ops>>

\* filesize is measured, the parser class is selected and the tag created
GetSelectParser ==
    LET selected == get_parser_class(call.cls, call.filename, call.content)
    IN /\ pc = "try"
       /\ fh' = [fh EXCEPT !.header_reads = selected.header_reads]
       /\ IF selected.parser = "None"
          THEN /\ call' = [call EXCEPT !.raised = "UnsupportedFormatError"]
               /\ pc' = "finally"
               /\ tag' = tag
          ELSE /\ call' = [call EXCEPT !.parser_class = selected.parser]
               /\ pc' = "load"
               /\ tag' = [EmptyTag EXCEPT !.core["filename"] = call.filename,
                                          !.core["filesize"] = PyInt(call.filesize)]
       /\ lastOp' = [op |-> "_get_parser_class", parser |-> selected.parser]
       /\ UNCHANGED <<sub, id3, ops, outcome>>

\* if filesize > 0: tag._load(...), any Exception re-raised as ParseError
GetLoad(exc, write) ==
    /\ pc = "load"
    /\ IF call.filesize > 0
       THEN /\ exc \in LoadOutcomes(call.parser_class, call.content, call.tags, call.duration)
            /\ write = "title" =>
                  call.tags /\ HeaderError(call.parser_class, call.content) = "None"
            /\ tag' = IF write = "title"
                      THEN SetField(tag, CoreField("title"), PyStr(<<97>>), TRUE)
                      ELSE tag
       ELSE /\ exc = "None"
            /\ write = "nothing"
            /\ tag' = tag
    /\ call' = [call EXCEPT !.load_raised = exc, !.raised = RaisedByLoad(exc)]
    /\ pc' = "finally"
    /\ lastOp' = [op |-> "_load", raised |-> exc, wrote |-> write]
    /\ UNCHANGED <<sub, id3, ops, fh, outcome>>

\* finally: the source is closed if get opened it; get returns the tag or
\* lets the exception out
GetFinally ==
    /\ pc = "finally"
    /\ fh' = [fh EXCEPT !.closed = call.should_close_file]
    /\ outcome' = IF call.raised = "None" THEN [kind |-> "returned", tag |-> tag]
                  ELSE [kind |-> call.raised, tag |-> PyNone]
    /\ pc' = "done"
    /\ lastOp' = [op |-> "finally"]
    /\ UNCHANGED <<tag, sub, id3, ops, call>>

\* a caller calls get, once, with any of the arguments drawn
GetAnyCall ==
    /\ pc = "idle"
    /\ \E cls \in GetClasses, filename \in Filenames, file_obj \in BOOLEAN,
          content \in Contents, tags \in BOOLEAN, duration \in BOOLEAN :
          GetCall(cls, filename, file_obj, content, tags, duration)

GetNext ==
    \/ GetAnyCall
    \/ GetSelectParser
    \/ \E exc \in {"None"} \cup LoadExceptions, write \in LoadWrites : GetLoad(exc, write)
    \/ GetFinally

SpecGet == GetInit /\ [][GetNext]_vars

----------------------------------------------------------------------------
(* _load on the files of each parser *)

\* the number of sections drawn for one file
MaxSections == 2

\* the sections drawn for the files of each parser
LoadSections(parser) ==
    LET frame(id) == [id |-> id, frame_id |-> "TIT2", content |-> <<0, 97>>]
        comment(id) == [id |-> id, key |-> "title", value |-> <<97>>]
        streaminfo == {[id |-> "STREAMINFO", size |-> 34, samplerate |-> s, channel_bits |-> 1,
                        depth_bits |-> 15, total_samples |-> n] : s \in {0, 1}, n \in {0, 2}}
    IN CASE parser = "_Wave" ->
               {[id |-> "fmt ", channels |-> c, samplerate |-> s, bitdepth |-> b] :
                    c \in {0, 2}, s \in {0, 1}, b \in {0, 8}}
               \cup {[id |-> "data", size |-> 2], [id |-> "JUNK"], frame("id3 "),
                     [id |-> "LIST", field |-> "INAM", data |-> <<97, 0>>]}
         [] parser = "_Aiff" ->
               {[id |-> "COMM", channels |-> c, bitdepth |-> 16, num_frames |-> 2,
                 samplerate |-> s, overflow |-> o] :
                    c \in {2, 65535}, s \in {0, 1}, o \in BOOLEAN}
               \cup {[id |-> "NAME", data |-> <<97, 0>>], [id |-> "SSND"], frame("ID3 ")}
         [] parser = "_Flac" ->
               streaminfo
               \cup {frame("ID3"), comment("VORBIS_COMMENT"), [id |-> "INVALID"],
                     [id |-> "PADDING"]}
               \cup {[id |-> "STREAMINFO", size |-> n] : n \in {0, 33}}
               \cup {[id |-> "PADDING", last |-> TRUE],
                     [id |-> "VORBIS_COMMENT", key |-> "title", value |-> <<97>>,
                      last |-> TRUE],
                     [id |-> "STREAMINFO", size |-> 34, samplerate |-> 1, channel_bits |-> 1,
                      depth_bits |-> 15, total_samples |-> 2, last |-> TRUE]}
         [] parser = "_Ogg" ->
               {[id |-> "\\x01vorbis", pos |-> 0, channels |-> c, ones |-> o, low |-> 1,
                 bitrate |-> 128000] : c \in {0, 2}, o \in BOOLEAN}
               \cup {[id |-> "Speex   ", pos |-> 0, channels |-> 1, ones |-> o, low |-> 1,
                      bitrate |-> 0] : o \in BOOLEAN}
               \cup {[id |-> "OpusHead", pos |-> 0, version |-> v, channels |-> 0] :
                         v \in {1, 16}}
               \cup {[id |-> id, pos |-> 2, key |-> "title", value |-> <<97>>] :
                         id \in {"\\x03vorbis", "OpusTags"}}
               \cup {[id |-> "\\x7fFLAC", pos |-> 0, block |-> b] :
                         b \in streaminfo \cup {comment("VORBIS_COMMENT")}}
               \cup {[id |-> "other", pos |-> 2, block_type |-> b, comment |-> <<97>>,
                      key |-> "title", value |-> <<97>>] : b \in {1, 4}}
         [] parser = "_Wma" ->
               {[id |-> "content_description", field |-> CoreField("title"),
                 private |-> p, data |-> <<97, 0>>] : p \in BOOLEAN}
               \cup {[id |-> "extended_content_description", field |-> fld,
                      value_type |-> v, data |-> <<49, 0>>] :
                         fld \in {CoreField("track"), ExtraName("track")}, v \in {0, 1}}
               \cup {[id |-> "file_property", play_duration |-> 20000, preroll |-> p] :
                         p \in {0, 3}}
               \cup {[id |-> "stream_properties", audio |-> a, channels |-> c,
                      samplerate |-> 0, avg_bytes_per_second |-> 1,
                      codec_id_format_tag |-> tg, bits_per_sample |-> 0] :
                         a \in BOOLEAN, c \in {0, 2}, tg \in {353, 355}}
               \cup {[id |-> "invalid", object_size |-> s] : s \in {0, 4097}}
               \cup {[id |-> "header_extension"]}
         [] parser = "_MP4" ->
               {[id |-> "\\xa9nam", data_type |-> d, data |-> <<97>>] : d \in {0, 1}}
               \cup {[id |-> "mvhd", version |-> v[1], time_scale |-> s, ones |-> v[2],
                      low |-> 1] : v \in {<<0, FALSE>>, <<1, FALSE>>, <<1, TRUE>>}, s \in {0, 1}}
               \cup {[id |-> "alac", channels |-> c, samplerate |-> 1, avg_bitrate |-> 1,
                      bitdepth |-> b] : c \in {2, 255}, b \in {16, 128}}
               \cup {[id |-> "gnre", value |-> v] : v \in {0, 1, 189, 190, 65535}}
               \cup {[id |-> "trkn", number |-> 1, total |-> 2], [id |-> "free"]}
         [] parser = "_ID3" ->
               {[id |-> "mpeg", mpeg_id |-> m, sr_id |-> s, channel_mode |-> ch] :
                    m \in {1, 3}, s \in {0, 3}, ch \in {0, 3}}
               \cup {frame("frame")}

LoadInit ==
    /\ tag = EmptyTag
    /\ sub = EmptyTag
    /\ id3 = NoId3
    /\ ops = 0
    /\ lastOp = [op |-> "init"]
    /\ pc = "idle"
    /\ call = NoCall
    /\ fh = NoPrivate
    /\ outcome = NoOutcome

\* if tags: self._filehandler.seek(0), before _determine_duration: the
\* position of the source when _determine_duration is called
Rewind_Never(tags, pos) == pos

Rewind(tags, pos) == IF tags THEN 0 ELSE pos

\* tag = parser_class(); tag.filesize = filesize; tag._load(tags, duration)
\* on a file of 4096 bytes, which get has positioned at offset 0 (seek(0)
\* after measuring the size, and again after reading the header for the
\* magic bytes).  _load starts _parse_tag when tags is set, else
\* _determine_duration when duration is set, and returns at once with neither.
\* _Wave._parse_tag, which runs in either pass, first sets the default bit
\* depth when _parse_duration is set.  outcome keeps the position of the
\* source and the calls and returns of the two operations
LoadCall(parser, tags, duration) ==
    LET t == [EmptyTag EXCEPT !.core["filesize"] = PyInt(4096)]
    IN /\ pc = "idle"
       /\ call' = [active |-> TRUE, parser |-> parser, flags |-> LoadFlags(tags, duration),
                   tags |-> tags, duration |-> duration]
       /\ tag' = IF parser = "_Wave" /\ duration
                 THEN [t EXCEPT !.core["bitdepth"] = PyInt(16)]
                 ELSE t
       /\ pc' = IF tags THEN "parse_tag"
                ELSE IF duration THEN "determine_duration" ELSE "returned"
       /\ outcome' = [pos |-> 0,
                      trace |-> IF tags THEN <<[op |-> "_parse_tag", pos |-> 0]>>
                                ELSE IF duration
                                     THEN <<[op |-> "_determine_duration", pos |-> 0]>>
                                     ELSE <<>>]
       /\ lastOp' = [op |-> "_load", parser |-> parser]
       /\ UNCHANGED <<sub, id3, ops, fh>>

\* the running pass reads the next section of the file, which moves the
\* source forward (a section counts for one position here).
\* _determine_duration of a single-pass parser reads nothing once
\* _tags_parsed is set
LoadSection(c) ==
    /\ pc \in {"parse_tag", "determine_duration"}
    /\ ops < MaxSections
    /\ call.parser \in SinglePass => (pc = "parse_tag" \/ ~fh.tags_parsed)
    /\ LET r == ParseSection(call.parser, pc, tag, call.flags, fh, c)
       IN /\ tag' = r.t
          /\ fh' = r.st
          /\ pc' = IF r.exc = "None" THEN pc ELSE "ParseError"
    /\ ops' = ops + 1
    /\ outcome' = [outcome EXCEPT
                      !.pos = IF fh.stopped /\ call.parser # "_Ogg" THEN @ ELSE @ + 1]
    /\ lastOp' = [op |-> "section", pass |-> pc, section |-> c]
    /\ UNCHANGED <<sub, id3, call>>

\* the running pass reaches the end of the file.  _parse_tag of a single-pass
\* parser sets _tags_parsed, _Flac's after merging the leading ID3 tag; _load
\* goes on to _determine_duration when duration is set, after the seek(0)
\* that follows _parse_tag
LoadEndPass ==
    LET parsed_here == call.parser \in SinglePass /\ (pc = "parse_tag" \/ ~fh.tags_parsed)
        returned == [op |-> "return", pos |-> outcome.pos]
        pos == Rewind(call.tags, outcome.pos)
        t1 == IF parsed_here /\ call.parser = "_Flac" /\ fh.id3.present
              THEN Update(tag, fh.id3.t)
              ELSE tag
    IN /\ pc \in {"parse_tag", "determine_duration"}
       /\ tag' = IF pc = "determine_duration"
                 THEN DetermineDurationEnd(call.parser, t1, fh)
                 ELSE t1
       /\ fh' = [fh EXCEPT !.tags_parsed = @ \/ parsed_here]
       /\ pc' = IF pc = "parse_tag" /\ call.duration THEN "determine_duration"
                ELSE "returned"
       /\ outcome' = IF pc = "parse_tag" /\ call.duration
                     THEN [pos |-> pos,
                           trace |-> outcome.trace \o
                               <<returned, [op |-> "_determine_duration", pos |-> pos]>>]
                     ELSE [outcome EXCEPT !.trace = @ \o <<returned>>]
       /\ lastOp' = [op |-> "end_pass", pass |-> pc]
       /\ UNCHANGED <<sub, id3, ops, call>>

LoadNext ==
    \/ \E parser \in Parsers, tags, duration \in BOOLEAN : LoadCall(parser, tags, duration)
    \/ /\ pc \in {"parse_tag", "determine_duration"}
       /\ \E c \in LoadSections(call.parser) : LoadSection(c)
    \/ LoadEndPass

SpecLoad == LoadInit /\ [][LoadNext]_vars


----------------------------------------------------------------------------
(* File type detection: is_supported and the magic bytes of a header *)

\* SUPPORTED_FILE_EXTENSIONS, in the order of the tuple (as code points)
SUPPORTED_FILE_EXTENSIONS ==
    <<
      \* .mp1 .mp2 .mp3
      <<46, 109, 112, 49>>, <<46, 109, 112, 50>>, <<46, 109, 112, 51>>,
      \* .oga .ogg .opus .spx
      <<46, 111, 103, 97>>, <<46, 111, 103, 103>>, <<46, 111, 112, 117, 115>>, <<46, 115, 112, 120>>,
      \* .wav .flac .wma
      <<46, 119, 97, 118>>, <<46, 102, 108, 97, 99>>, <<46, 119, 109, 97>>,
      \* .m4b .m4a .m4r .m4v .mp4 .aax .aaxc
      <<46, 109, 52, 98>>, <<46, 109, 52, 97>>, <<46, 109, 52, 114>>, <<46, 109, 52, 118>>, <<46, 109, 112, 52>>, <<46, 97, 97, 120>>, <<46, 97, 97, 120, 99>>,
      \* .aiff .aifc .aif .afc
      <<46, 97, 105, 102, 102>>, <<46, 97, 105, 102, 99>>, <<46, 97, 105, 102>>, <<46, 97, 102, 99>>
    >>

\* is_supported: cls._get_parser_for_filename(filename) is not None
is_supported(filename) == get_parser_for_filename(filename) # "None"

DetectInit ==
    /\ tag = EmptyTag
    /\ sub = EmptyTag
    /\ id3 = NoId3
    /\ ops = 0
    /\ lastOp = [op |-> "init"]
    /\ pc = "idle"
    /\ call = NoCall
    /\ fh = NoFile
    /\ outcome = NoOutcome

\* TinyTag.is_supported(filename)
DetectIsSupported(filename) ==
    /\ pc = "idle"
    /\ call' = [active |-> TRUE, op |-> "is_supported", filename |-> filename]
    /\ outcome' = [kind |-> "bool", v |-> is_supported(filename)]
    /\ pc' = "done"
    /\ lastOp' = [op |-> "is_supported"]
    /\ UNCHANGED <<tag, sub, id3, ops, fh>>

\* TinyTag._get_parser_for_file_handle(fh) on a file that starts with header
DetectMagic(header) ==
    /\ pc = "idle"
    /\ call' = [active |-> TRUE, op |-> "_get_parser_for_file_handle", header |-> header]
    /\ outcome' = [kind |-> "parser", parser |-> get_parser_for_file_handle(header)]
    /\ fh' = [NoFile EXCEPT !.header_reads = 1]
    /\ pc' = "done"
    /\ lastOp' = [op |-> "_get_parser_for_file_handle"]
    /\ UNCHANGED <<tag, sub, id3, ops>>

\* TinyTag._get_parser_class(filename, filehandle), as get calls it
DetectParserClass(filename, header) ==
    LET selected == get_parser_class("TinyTag", filename, header)
    IN /\ pc = "idle"
       /\ call' = [active |-> TRUE, op |-> "_get_parser_class", filename |-> filename,
                   header |-> header]
       /\ outcome' = IF selected.parser = "None"
                     THEN [kind |-> "UnsupportedFormatError", parser |-> "None"]
                     ELSE [kind |-> "parser", parser |-> selected.parser]
       /\ fh' = [NoFile EXCEPT !.header_reads = selected.header_reads]
       /\ pc' = "done"
       /\ lastOp' = [op |-> "_get_parser_class"]
       /\ UNCHANGED <<tag, sub, id3, ops>>

\* The inputs drawn.  File names: every supported extension, as it is and in
\* upper case, without its dot, cut short by one character and followed by
\* another extension, after an empty stem or the stem "a".  Headers: RIFF or
\* FORM, a size field with any value 0..255 in one of its four bytes, and a
\* form type; the first Ogg page of a stream (27 bytes and the segment table)
\* with the first bytes of its packet
DetectNext ==
    LET Upper(s) == [i \in 1..Len(s) |-> IF s[i] \in 97..122 THEN s[i] - 32 ELSE s[i]]
        exts == {SUPPORTED_FILE_EXTENSIONS[i] : i \in 1..Len(SUPPORTED_FILE_EXTENSIONS)}
        endings == UNION {{e, Upper(e), Drop(e, 1), Take(e, Len(e) - 1), e \o <<46, 98>>} :
                             e \in exts}
        names == {stem \o e : stem \in {<<>>, <<97>>}, e \in endings \cup {<<>>}}
        sizes == {[i \in 1..4 |-> IF i = p THEN b ELSE 0] : p \in 1..4, b \in 0..255}
        iff == {form \o size \o type :
                    form \in {<<82, 73, 70, 70>>, <<70, 79, 82, 77>>}, size \in sizes,
                    type \in {<<87, 65, 86, 69>>, <<65, 73, 70, 70>>, <<65, 73, 70, 67>>}}
        \* "\x01vorbis", "OpusHead", "\x7fFLAC", "Speex   ", "\x80theora", "fishead\0"
        packets == {<<1, 118, 111, 114, 98, 105, 115>>, <<79, 112, 117, 115, 72, 101, 97, 100>>,
                    <<127, 70, 76, 65, 67>>, <<83, 112, 101, 101, 120, 32, 32, 32>>,
                    <<128, 116, 104, 101, 111, 114, 97>>,
                    <<102, 105, 115, 104, 101, 97, 100, 0>>, <<>>}
        \* OggS, version, flags, granule position, serial number, sequence
        \* number, checksum, number of segments, segment table
        page(serial, segments, packet) ==
            <<79, 103, 103, 83, 0, 2>> \o <<0, 0, 0, 0, 0, 0, 0, 0>> \o <<serial, 0, 0, 0>>
            \o <<0, 0, 0, 0>> \o <<0, 0, 0, 0>> \o <<segments>>
            \o [i \in 1..segments |-> 30] \o packet
        ogg == {page(serial, segments, packet) :
                    serial \in {0, 1, 10}, segments \in {1, 2}, packet \in packets}
    IN \/ \E filename \in names : DetectIsSupported(filename)
       \/ \E header \in iff \cup ogg : DetectMagic(header)
       \/ \E filename \in {PyNone, PyStr(<<97, 46, 120>>), PyStr(<<97, 46, 119, 97, 118>>)},
             header \in ogg \cup {<<>>} : DetectParserClass(filename, header)

SpecDetect == DetectInit /\ [][DetectNext]_vars


----------------------------------------------------------------------------
(* Images: a parser stores the images it finds with images._set_field; a   *)
(* delegated parser stores them in its own Tag, merged later by _update     *)

\* most images stored in one behaviour
MaxImages == 3

ImagesInit ==
    /\ tag = EmptyTag
    /\ sub = EmptyTag
    /\ id3 = NoId3
    /\ ops = 0
    /\ lastOp = [op |-> "init"]
    /\ pc = "self"
    /\ call = NoCall
    /\ fh = NoFile
    /\ outcome = NoOutcome

\* images._set_field(fieldname, image) of the parser's own Tag (on = "tag")
\* or of the Tag of a delegated parser (on = "sub")
ImagesInsert(on, fieldname, image) ==
    /\ ops < MaxImages
    /\ IF on = "tag"
       THEN /\ tag' = [tag EXCEPT !.images = ImagesSetField(@, fieldname, image)]
            /\ sub' = sub
       ELSE /\ sub' = [sub EXCEPT !.images = ImagesSetField(@, fieldname, image)]
            /\ tag' = tag
    /\ ops' = ops + 1
    /\ lastOp' = [op |-> "images._set_field", on |-> on, field |-> fieldname, image |-> image]
    /\ UNCHANGED <<id3, pc, call, fh, outcome>>

\* self.images._update(other.images), after which the delegated parser is
\* dropped
ImagesMerge ==
    /\ sub # EmptyTag
    /\ tag' = [tag EXCEPT !.images = ImagesUpdate(@, sub.images)]
    /\ sub' = EmptyTag
    /\ lastOp' = [op |-> "images._update", other |-> sub.images]
    /\ UNCHANGED <<id3, ops, pc, call, fh, outcome>>

\* the fields drawn are those _create_tag_image gives the picture types 0,
\* 1, 3, 4 and 6; an image is told from another by its data
ImagesNext ==
    \/ \E on \in {"tag", "sub"},
          fieldname \in {[extra |-> FALSE, name |-> s] :
                             s \in {"front_cover", "back_cover", "media", "other"}}
                        \cup {[extra |-> TRUE, name |-> "icon"]},
          data \in 1..2 :
          ImagesInsert(on, fieldname, [name |-> fieldname.name, data |-> data])
    \/ ImagesMerge

SpecImages == ImagesInit /\ [][ImagesNext]_vars


----------------------------------------------------------------------------
(* Concurrent calls of get: the class attributes they share                 *)

\* _MP4._Parser.atom_decoder_by_type: the decoder of each data atom type
atom_decoder_by_type ==
    <<[type |-> 1, decoder |-> "utf-8"], [type |-> 2, decoder |-> "utf-16"],
      [type |-> 3, decoder |-> "s/jis"],
      [type |-> 13, decoder |-> "image/jpeg"], [type |-> 14, decoder |-> "image/png"],
      [type |-> 21, decoder |-> "_unpack_integer"],
      [type |-> 22, decoder |-> "_unpack_integer_unsigned"],
      [type |-> 65, decoder |-> "_unpack_integer"], [type |-> 66, decoder |-> "_unpack_integer"],
      [type |-> 67, decoder |-> "_unpack_integer"], [type |-> 74, decoder |-> "_unpack_integer"],
      [type |-> 75, decoder |-> "_unpack_integer_unsigned"],
      [type |-> 76, decoder |-> "_unpack_integer_unsigned"],
      [type |-> 77, decoder |-> "_unpack_integer_unsigned"],
      [type |-> 78, decoder |-> "_unpack_integer_unsigned"]>>

\* Two threads; every class attribute starts as None.  `fh` holds the class
\* attributes, `call`, `pc` and `outcome` the locals of each thread
ThreadsInit ==
    /\ tag = EmptyTag
    /\ sub = EmptyTag
    /\ id3 = NoId3
    /\ ops = 0
    /\ lastOp = [op |-> "init"]
    /\ pc = [t \in 1..2 |-> "idle"]
    /\ call = [t \in 1..2 |-> NoCall]
    /\ fh = [_file_extension_mapping |-> PyNone, _magic_bytes_mapping |-> PyNone,
             atom_decoder_by_type |-> PyNone]
    /\ outcome = [t \in 1..2 |-> NoOutcome]

\* thread t calls TinyTag.get on its own source: a file name or none, the
\* content of the file, and the type of the data atom an MP4 file holds.
\* _get_parser_class goes to _get_parser_for_filename when the name is set
ThreadCall(t, filename, content, data_type) ==
    /\ pc[t] = "idle"
    /\ call' = [call EXCEPT ![t] =
                   [active |-> TRUE, filename |-> filename, content |-> content,
                    data_type |-> data_type, parser_class |-> "None",
                    attribute |-> IF Truthy(filename) THEN "_file_extension_mapping"
                                  ELSE "_magic_bytes_mapping",
                    assigned |-> {}]]
    /\ pc' = [pc EXCEPT ![t] = "check"]
    /\ lastOp' = [op |-> "get", thread |-> t]
    /\ UNCHANGED <<tag, sub, id3, ops, fh, outcome>>

\* a variant that marks the attribute as taken before its table is built
ThreadCheck_Claims(t) ==
    /\ pc[t] = "check"
    /\ pc' = [pc EXCEPT ![t] = IF fh[call[t].attribute] = PyNone THEN "assign" ELSE "lookup"]
    /\ fh' = [fh EXCEPT ![call[t].attribute] = IF @ = PyNone THEN <<>> ELSE @]
    /\ lastOp' = [op |-> "is None", thread |-> t]
    /\ UNCHANGED <<tag, sub, id3, ops, call, outcome>>

\* if cls.<attribute> is None:
ThreadCheck(t) ==
    /\ pc[t] = "check"
    /\ pc' = [pc EXCEPT ![t] = IF fh[call[t].attribute] = PyNone THEN "assign" ELSE "lookup"]
    /\ lastOp' = [op |-> "is None", thread |-> t]
    /\ UNCHANGED <<tag, sub, id3, ops, call, fh, outcome>>

\* cls.<attribute> = {...}: the dict is built and then bound to the class
\* attribute in one store
ThreadAssign(t) ==
    LET attribute == call[t].attribute
        table == CASE attribute = "_file_extension_mapping" -> file_extension_mapping
                   [] attribute = "_magic_bytes_mapping" -> magic_bytes_mapping
                   [] attribute = "atom_decoder_by_type" -> atom_decoder_by_type
    IN /\ pc[t] = "assign"
       /\ fh' = [fh EXCEPT ![attribute] = table]
       /\ call' = [call EXCEPT ![t].assigned = @ \cup {attribute}]
       /\ pc' = [pc EXCEPT ![t] = "lookup"]
       /\ lastOp' = [op |-> "assign", thread |-> t, attribute |-> attribute]
       /\ UNCHANGED <<tag, sub, id3, ops, outcome>>

\* the class attribute is read again and searched: the loop over
\* _file_extension_mapping.items(), the loop over _magic_bytes_mapping.items()
\* after the header was read, atom_decoder_by_type.get(data_type).  A name
\* with no known extension goes on to the magic bytes; an MP4 file goes on to
\* its data atom; no parser at all is UnsupportedFormatError
ThreadLookup(t) ==
    LET c == call[t]
        table == fh[c.attribute]
        hit(i) == CASE c.attribute = "_file_extension_mapping" ->
                           \E ext \in table[i].ext : EndsWith(Lower(c.filename.v), ext)
                    [] c.attribute = "_magic_bytes_mapping" ->
                           Match(table[i].sig, Take(c.content, MaxSigLen))
                    [] c.attribute = "atom_decoder_by_type" -> table[i].type = c.data_type
        found == \E i \in 1..Len(table) : hit(i)
        first == table[CHOOSE i \in 1..Len(table) : hit(i) /\ \A j \in 1..(i - 1) : ~hit(j)]
        done(kind, parser, decoder) ==
            /\ pc' = [pc EXCEPT ![t] = "done"]
            /\ outcome' = [outcome EXCEPT ![t] =
                              [kind |-> kind, parser |-> parser, decoder |-> decoder]]
            /\ call' = call
        goto(attribute, parser) ==
            /\ pc' = [pc EXCEPT ![t] = "check"]
            /\ call' = [call EXCEPT ![t].attribute = attribute, ![t].parser_class = parser]
            /\ outcome' = outcome
        selected(parser) ==
            IF parser = "_MP4" THEN goto("atom_decoder_by_type", parser)
            ELSE done("returned", parser, "None")
    IN /\ pc[t] = "lookup"
       /\ CASE table = PyNone -> done("AttributeError", "None", "None")
            [] table # PyNone /\ c.attribute = "_file_extension_mapping" ->
                   IF found THEN selected(first.tagclass)
                   ELSE goto("_magic_bytes_mapping", "None")
            [] table # PyNone /\ c.attribute = "_magic_bytes_mapping" ->
                   IF found THEN selected(first.parser)
                   ELSE done("UnsupportedFormatError", "None", "None")
            [] table # PyNone /\ c.attribute = "atom_decoder_by_type" ->
                   done("returned", c.parser_class, IF found THEN first.decoder ELSE "None")
       /\ lastOp' = [op |-> "lookup", thread |-> t, attribute |-> c.attribute]
       /\ UNCHANGED <<tag, sub, id3, ops, fh>>

\* the sources drawn: no name, a.m4a, a.wav or a.x; an Ogg Vorbis page, an
\* M4A header or no known signature; a data atom of type 0, 1, 13 or 21
ThreadsNext ==
    \E t \in 1..2 :
        \/ \E filename \in {PyNone, PyStr(<<97, 46, 109, 52, 97>>),
                            PyStr(<<97, 46, 119, 97, 118>>), PyStr(<<97, 46, 120>>)},
              content \in {<<79, 103, 103, 83, 0, 2, 0, 0, 0, 0, 0, 0, 0, 0, 0, 0, 0, 0, 0, 0,
                             0, 0, 0, 0, 0, 0, 1, 30, 1, 118, 111, 114, 98, 105, 115>>,
                           <<0, 0, 0, 32, 102, 116, 121, 112, 77, 52, 65>>,
                           <<120, 120>>},
              data_type \in {0, 1, 13, 21} :
              ThreadCall(t, filename, content, data_type)
        \/ ThreadCheck(t)
        \/ ThreadAssign(t)
        \/ ThreadLookup(t)

SpecThreads == ThreadsInit /\ [][ThreadsNext]_vars

----------------------------------------------------------------------------
(* _Ogg._parse_pages: the pages of a file, the lacing values of each page, *)
(* and the packets the generator yields                                    *)

\* most pages of a file, and most lacing values of a page
MaxPages == 2
MaxSegments == 3

\* the lacing values drawn: an empty segment, two short ones, a full one
LacingValues == {0, 10, 20, 255}

\* the pages drawn: the version byte of the header and the lacing values.  The
\* file holds the payload bytes the lacing values announce
OggPages ==
    {[version |-> 0, segsizes |-> s] : s \in SeqsUpTo(LacingValues, MaxSegments)}
        \cup {[version |-> 1, segsizes |-> <<10>>]}

PagesInit ==
    /\ tag = EmptyTag
    /\ sub = EmptyTag
    /\ id3 = NoId3
    /\ ops = 0
    /\ lastOp = [op |-> "init"]
    /\ pc = "idle"
    /\ call = NoCall
    /\ fh = NoFile
    /\ outcome = NoOutcome

\* self._parse_pages(fh) on a file of these pages: previous_page = b'' (kept
\* as its length; its bytes are the payload bytes before the read position).
\* fh.pos counts the payload bytes read, outcome the packets yielded, each
\* with the payload offset of its first byte
PagesCall(pages) ==
    /\ pc = "idle"
    /\ call' = [active |-> TRUE, pages |-> pages]
    /\ fh' = [page |-> 0, segment |-> 0, total |-> 0, previous_page |-> 0, pos |-> 0]
    /\ outcome' = <<>>
    /\ pc' = "header"
    /\ lastOp' = [op |-> "_parse_pages"]
    /\ UNCHANGED <<tag, sub, id3, ops>>

\* header_data = fh.read(27); the loop ends on a short read, and a version
\* that is not 0 raises ParseError
PagesHeader ==
    /\ pc = "header"
    /\ IF fh.page = Len(call.pages) THEN pc' = "returned" /\ fh' = fh
       ELSE /\ fh' = [fh EXCEPT !.page = @ + 1, !.segment = 0, !.total = 0]
            /\ pc' = IF call.pages[fh.page + 1].version # 0 THEN "ParseError" ELSE "segments"
    /\ lastOp' = [op |-> "header"]
    /\ UNCHANGED <<tag, sub, id3, ops, call, outcome>>

\* one turn of `for segsize in segsizes`
PagesSegment ==
    LET segsizes == call.pages[fh.page].segsizes
        total == fh.total + segsizes[fh.segment + 1]
    IN /\ pc = "segments"
       /\ fh.segment < Len(segsizes)
       /\ IF total < 255
          THEN /\ outcome' = Append(outcome, [start |-> fh.pos - fh.previous_page,
                                              len |-> fh.previous_page + total])
               /\ fh' = [fh EXCEPT !.segment = @ + 1, !.total = 0, !.previous_page = 0,
                                   !.pos = @ + total]
          ELSE /\ outcome' = outcome
               /\ fh' = [fh EXCEPT !.segment = @ + 1, !.total = total]
       /\ lastOp' = [op |-> "segment"]
       /\ UNCHANGED <<tag, sub, id3, ops, pc, call>>

\* after the loop: `if total != 0`, the rest of the page is kept for the next
\* page or yielded
PagesEndOfPage ==
    /\ pc = "segments"
    /\ fh.segment = Len(call.pages[fh.page].segsizes)
    /\ IF fh.total # 0 /\ fh.total % 255 # 0
       THEN /\ outcome' = Append(outcome, [start |-> fh.pos - fh.previous_page,
                                           len |-> fh.previous_page + fh.total])
            /\ fh' = [fh EXCEPT !.previous_page = 0, !.pos = @ + fh.total]
       ELSE /\ outcome' = outcome
            /\ fh' = [fh EXCEPT !.previous_page = @ + fh.total, !.pos = @ + fh.total]
    /\ pc' = "header"
    /\ lastOp' = [op |-> "end_of_page"]
    /\ UNCHANGED <<tag, sub, id3, ops, call>>

PagesNext ==
    \/ /\ pc = "idle"
       /\ \E pages \in SeqsUpTo(OggPages, MaxPages) : PagesCall(pages)
    \/ PagesHeader
    \/ PagesSegment
    \/ PagesEndOfPage

SpecPages == PagesInit /\ [][PagesNext]_vars

----------------------------------------------------------------------------
(* _MP4._traverse_atoms: the atoms of a file, read header by header along  *)
(* one of the two trees, with the recursion kept as a stack of calls       *)

\* the four bytes of the atom types the trees and the files name
AtomType ==
    [moov |-> <<109, 111, 111, 118>>, udta |-> <<117, 100, 116, 97>>,
     meta |-> <<109, 101, 116, 97>>, ilst |-> <<105, 108, 115, 116>>,
     data |-> <<100, 97, 116, 97>>, nam |-> <<169, 110, 97, 109>>,
     custom |-> <<45, 45, 45, 45>>, mvhd |-> <<109, 118, 104, 100>>,
     trak |-> <<116, 114, 97, 107>>, mdia |-> <<109, 100, 105, 97>>,
     minf |-> <<109, 105, 110, 102>>, stbl |-> <<115, 116, 98, 108>>,
     stsd |-> <<115, 116, 115, 100>>, mp4a |-> <<109, 112, 52, 97>>,
     alac |-> <<97, 108, 97, 99>>, free |-> <<102, 114, 101, 101>>]

\* a node of a tree: a dict of sub-trees by atom type, or a callable
Dict(d) == [kind |-> "dict", at |-> d]
Callable == [kind |-> "callable"]

\* _META_DATA_TREE: below ilst, every atom type but '----' holds a data atom
META_DATA_TREE ==
    LET T == AtomType
        item_types ==
            {<<169, 65, 82, 84>>, <<169, 97, 108, 98>>, <<169, 99, 109, 116>>,
             <<169, 99, 111, 110>>, <<169, 100, 97, 121>>, <<169, 100, 101, 115>>,
             <<169, 100, 105, 114>>, <<169, 103, 101, 110>>, <<169, 108, 121, 114>>,
             <<169, 109, 118, 110>>, T.nam, <<169, 112, 117, 98>>,
             <<169, 116, 111, 111>>, <<169, 119, 114, 116>>, <<97, 65, 82, 84>>,
             <<99, 112, 114, 116>>, <<100, 101, 115, 99>>, <<100, 105, 115, 107>>,
             <<103, 110, 114, 101>>, <<116, 114, 107, 110>>, <<116, 109, 112, 111>>,
             <<99, 111, 118, 114>>}
        ilst == [k \in item_types |-> Dict(T.data :> Callable)] @@ (T.custom :> Callable)
    IN Dict(T.moov :> Dict(T.udta :> Dict(T.meta :> Dict(T.ilst :> Dict(ilst)))))

AUDIO_DATA_TREE ==
    LET T == AtomType
    IN Dict(T.moov :> Dict(
                T.mvhd :> Callable @@
                T.trak :> Dict(T.mdia :> Dict(T.minf :> Dict(T.stbl :> Dict(T.stsd :> Dict(
                    T.mp4a :> Callable @@ T.alac :> Callable)))))))

VERSIONED_ATOMS == {AtomType.meta, AtomType.stsd}
FLAGGED_ATOMS == {AtomType.stsd}

\* struct.pack('>I', n) and the unpack of four bytes
PackU32(n) == <<n \div 16777216, (n \div 65536) % 256, (n \div 256) % 256, n % 256>>
UnpackU32(b) == b[1] * 16777216 + b[2] * 65536 + b[3] * 256 + b[4]

\* the files drawn: well-formed atoms, each container holding whole atoms.
\* moov/udta/meta/ilst with one item, moov/trak/.../stsd with one sample entry
\* of a codec the tree does not name;
\* behind the innermost atom, behind its container and behind moov there is
\* nothing, an atom of nine bytes, or an atom of eight bytes (an empty one)
Mp4Files ==
    LET T == AtomType
        atom(type, payload) == PackU32(8 + Len(payload)) \o type \o payload
        item == atom(T.nam, atom(T.data, <<0, 0, 0, 1, 0, 0, 0, 0, 97>>))
        entry == atom(T.free, <<0, 0>>)
        more == {<<>>, atom(T.free, <<0>>), atom(T.free, <<>>)}
        nest(types, inner) ==
            LET RECURSIVE N(_)
                N(i) == IF i > Len(types) THEN inner ELSE atom(types[i], N(i + 1))
            IN N(1)
    IN {atom(T.moov, atom(T.udta, atom(T.meta, <<0, 0, 0, 0>> \o atom(T.ilst, item \o x)) \o y))
            \o z \o w : x, y \in more, z \in more \cup {atom(T.ilst, item)}, w \in {<<>>, item}}
       \cup {atom(T.moov, nest(<<T.trak, T.mdia, T.minf, T.stbl>>,
                                atom(T.stsd, <<0, 0, 0, 0, 0, 0, 0, 1>> \o entry \o x) \o y))
                 \o z : x, y \in more, z \in more \cup {entry}}

\* the sub-tree a call walks: path = tree[curr_path[1]][curr_path[2]]...
SubPath(tree, curr_path) ==
    LET RECURSIVE Down(_, _)
        Down(node, i) == IF i > Len(curr_path) THEN node ELSE Down(node.at[curr_path[i]], i + 1)
    IN Down(tree, 1)

\* a call returns to its caller, which makes its own test of stop_pos
\* (`if stop_pos and fh.tell() >= stop_pos: return`) before it reads on
Unwind(stack, pos) ==
    LET RECURSIVE U(_)
        U(s) == IF s # <<>> /\ Head(s).stop_pos # 0 /\ pos >= Head(s).stop_pos
                THEN U(Tail(s)) ELSE s
    IN U(stack)

AtomsInit ==
    /\ tag = EmptyTag
    /\ sub = EmptyTag
    /\ id3 = NoId3
    /\ ops = 0
    /\ lastOp = [op |-> "init"]
    /\ pc = "idle"
    /\ call = NoCall
    /\ fh = NoFile
    /\ outcome = NoOutcome

\* self._traverse_atoms(fh, path=tree) by _parse_tag or _determine_duration:
\* the outermost call has no stop_pos (None, kept as 0).  Every call on the
\* stack keeps its curr_path, its stop_pos, and the first and last+1 offset of
\* the payload of the atom it was made for; outcome lists the reads of a
\* header: where, how many bytes came, and for which call
AtomsCall(pass, data) ==
    /\ pc = "idle"
    /\ call' = [active |-> TRUE, pass |-> pass, data |-> data,
                tree |-> IF pass = "parse_tag" THEN META_DATA_TREE ELSE AUDIO_DATA_TREE]
    /\ fh' = [pos |-> 0,
              stack |-> <<[curr_path |-> <<>>, stop_pos |-> 0, first |-> 0, end |-> Len(data)]>>]
    /\ outcome' = <<>>
    /\ pc' = "traverse"
    /\ lastOp' = [op |-> "_traverse_atoms"]
    /\ UNCHANGED <<tag, sub, id3, ops>>

\* one turn of the loop of the innermost call: atom_header = fh.read(8) and
\* what is done with the atom.  A short read ends the call.  A handler is
\* handed fh.read(atom_size); what the handlers store is left to Mp4Atom
TraverseAtoms ==
    LET frame == Head(fh.stack)
        header == SubSeq(call.data, fh.pos + 1,
                         IF fh.pos + 8 > Len(call.data) THEN Len(call.data) ELSE fh.pos + 8)
        atom_size == UnpackU32(header) - 8
        atom_type == SubSeq(header, 5, 8)
        seen == fh.pos + 8 + (IF atom_type \in VERSIONED_ATOMS THEN 4 ELSE 0)
                           + (IF atom_type \in FLAGGED_ATOMS THEN 4 ELSE 0)
        path == SubPath(call.tree, frame.curr_path)
        descend == atom_type \in DOMAIN path.at /\ path.at[atom_type].kind = "dict"
        left == IF seen > Len(call.data) THEN 0 ELSE Len(call.data) - seen
        eof == IF fh.pos > Len(call.data) THEN fh.pos ELSE Len(call.data)
        after == IF atom_type \in DOMAIN path.at
                 THEN seen + (IF atom_size < left THEN atom_size ELSE left)
                 ELSE seen + atom_size
    IN /\ pc = "traverse"
       /\ outcome' = Append(outcome, [pos |-> fh.pos, size |-> Len(header),
                                      first |-> frame.first, end |-> frame.end,
                                      depth |-> Len(fh.stack)])
       /\ IF Len(header) < 8
          THEN /\ fh' = [pos |-> eof, stack |-> Unwind(Tail(fh.stack), eof)]
               /\ lastOp' = [op |-> "return"]
          ELSE IF atom_size <= 0
          THEN /\ fh' = [fh EXCEPT !.pos = @ + 8]
               /\ lastOp' = [op |-> "empty"]
          ELSE IF descend
          THEN /\ fh' = [pos |-> seen,
                         stack |-> <<[curr_path |-> Append(frame.curr_path, atom_type),
                                      stop_pos |-> seen + atom_size,
                                      first |-> fh.pos + 8,
                                      end |-> fh.pos + 8 + atom_size]>> \o fh.stack]
               /\ lastOp' = [op |-> "descend"]
          ELSE /\ fh' = [pos |-> after, stack |-> Unwind(fh.stack, after)]
               /\ lastOp' = [op |-> IF atom_type \in DOMAIN path.at THEN "handler" ELSE "skip"]
       /\ pc' = IF fh'.stack = <<>> THEN "returned" ELSE "traverse"
       /\ UNCHANGED <<tag, sub, id3, ops, call>>

AtomsNext ==
    \/ /\ pc = "idle"
       /\ \E pass \in {"parse_tag", "determine_duration"}, data \in Mp4Files :
              AtomsCall(pass, data)
    \/ TraverseAtoms

SpecAtoms == AtomsInit /\ [][AtomsNext]_vars

----------------------------------------------------------------------------
(* Pictures: the picture type read from an ID3 image frame or a FLAC       *)
(* picture block, and the field _create_tag_image stores the image in      *)

\* _ID3._IMAGE_TYPES, each 'extra.<name>' as [extra |-> TRUE, name |-> <name>]
IMAGE_TYPES ==
    LET slot(name) == [extra |-> FALSE, name |-> name]
        extra(name) == [extra |-> TRUE, name |-> name]
    IN <<slot("other"), extra("icon"), extra("other_icon"), slot("front_cover"),
         slot("back_cover"), slot("leaflet"), slot("media"), extra("lead_artist"),
         extra("artist"), extra("conductor"), extra("band"), extra("composer"),
         extra("lyricist"), extra("recording_location"), extra("during_recording"),
         extra("during_performance"), extra("video"), extra("bright_colored_fish"),
         extra("illustration"), extra("band_logo"), extra("publisher_logo")>>

\* _ID3._create_tag_image(data, pic_type): the field name and the image, or
\* the IndexError of a subscript beyond the end of the tuple
create_tag_image(data, pic_type) ==
    LET in_range == 0 <= pic_type /\ pic_type <= Len(IMAGE_TYPES)
        field_name == IF in_range /\ pic_type < Len(IMAGE_TYPES)
                      THEN IMAGE_TYPES[pic_type + 1]
                      ELSE [extra |-> TRUE, name |-> "unknown"]
    IN [exc |-> IF in_range /\ pic_type >= Len(IMAGE_TYPES) THEN "IndexError" ELSE "None",
        field_name |-> field_name,
        image |-> [name |-> field_name.name, data |-> data]]

PicturesInit ==
    /\ tag = EmptyTag
    /\ sub = EmptyTag
    /\ id3 = NoId3
    /\ ops = 0
    /\ lastOp = [op |-> "init"]
    /\ pc = "idle"
    /\ call = NoCall
    /\ fh = NoFile
    /\ outcome = NoOutcome

\* the image of one APIC / PIC frame (_ID3._parse_frame: pic_type is one byte
\* of the content) or of one FLAC picture block (_Flac._parse_image: pic_type
\* is an unsigned 32-bit number) is created and stored:
\* self.images._set_field(field_name, image)
StorePicture(source, pic_type) ==
    LET r == create_tag_image(1, pic_type)
    IN /\ pc = "idle"
       /\ tag' = IF r.exc = "None"
                 THEN [tag EXCEPT !.images = ImagesSetField(@, r.field_name, r.image)]
                 ELSE tag
       /\ pc' = IF r.exc = "None" THEN "stored" ELSE r.exc
       /\ lastOp' = [op |-> source, pic_type |-> pic_type]
       /\ UNCHANGED <<sub, id3, ops, call, fh, outcome>>

PicturesNext ==
    \/ \E pic_type \in 0..255 : StorePicture("_parse_frame", pic_type)
    \/ \E pic_type \in 0..32 \cup {255, 256, 65536, 2147483647} :
           StorePicture("_parse_image", pic_type)

SpecPictures == PicturesInit /\ [][PicturesNext]_vars

----------------------------------------------------------------------------
(* _ID3._parse_tag: the frames of the ID3v2 tag, then the ID3v1 tag in the *)
(* last 128 bytes of the file                                              *)

\* _ID3._parse_id3v1 on the 125 bytes behind b'TAG'.  fields holds the text
\* fields without the padding that fills them up (asciidecode decodes
\* ISO-8859-1 and strips NUL bytes at both ends), the last two bytes of the
\* comment apart from the 28 before them, and the genre byte.  The last two
\* bytes drawn are 0, 0 or 0 and a track number
parse_id3v1(t, fields) ==
    LET asciidecode(x) == Unpad(DecodeLatin1(x))
        fill(tt, name, x) ==
            IF ~Truthy(tt.core[name]) /\ asciidecode(x) # <<>>
            THEN SetField(tt, CoreField(name), PyStr(asciidecode(x)), TRUE)
            ELSE tt
        track(tt) ==
            IF fields.last[1] = 0 /\ fields.last[2] >= 1 /\ tt.core["track"] = PyNone
            THEN SetField(tt, CoreField("track"), PyInt(fields.last[2]), TRUE)
            ELSE tt
        genre(tt) ==
            IF ~Truthy(tt.core["genre"]) /\ fields.genre < Len(ID3V1_GENRES)
            THEN SetField(tt, CoreField("genre"), PyStr(ID3V1_GENRES[fields.genre + 1]), TRUE)
            ELSE tt
    IN genre(fill(track(fill(fill(fill(fill(t, "title", fields.title),
                                           "artist", fields.artist),
                                      "album", fields.album),
                                 "year", fields.year)),
                  "comment", fields.comment))

Id3Init ==
    /\ tag = EmptyTag
    /\ sub = EmptyTag
    /\ id3 = NoId3
    /\ ops = 0
    /\ lastOp = [op |-> "init"]
    /\ pc = "idle"
    /\ call = NoCall
    /\ fh = NoFile
    /\ outcome = NoOutcome

\* tag.filesize = filesize; tag._parse_tag(fh), which starts with
\* self._parse_id3v2(fh).  outcome lists the tags parsed
Id3ParseTag(filesize) ==
    /\ pc = "idle"
    /\ tag' = [EmptyTag EXCEPT !.core["filesize"] = PyInt(filesize)]
    /\ call' = [active |-> TRUE, filesize |-> filesize]
    /\ outcome' = <<"id3v2">>
    /\ pc' = "id3v2"
    /\ lastOp' = [op |-> "_parse_tag"]
    /\ UNCHANGED <<sub, id3, ops, fh>>

\* _parse_id3v2: frame_size = self._parse_frame(fh, id3version=major)
Id3v2Frame(frame_id, content) ==
    /\ pc = "id3v2"
    /\ ops < MaxOps
    /\ tag' = ParseFrame(tag, frame_id, content)
    /\ ops' = ops + 1
    /\ lastOp' = [op |-> "frame", field |-> frame_id, data |-> content]
    /\ UNCHANGED <<sub, id3, pc, call, fh, outcome>>

\* the end of the ID3v2 tag: `if self.filesize > 128`, fh.seek(-128, SEEK_END)
\* and self._parse_id3v1(fh), which returns at once unless the three bytes
\* read are b'TAG'.  sub keeps the Tag as the ID3v2 tag left it
Id3v1Trailer(has_tag, fields) ==
    /\ pc = "id3v2"
    /\ sub' = tag
    /\ IF call.filesize > 128
       THEN /\ outcome' = Append(outcome, "id3v1")
            /\ tag' = IF has_tag THEN parse_id3v1(tag, fields) ELSE tag
            /\ lastOp' = [op |-> "_parse_id3v1", has_tag |-> has_tag, fields |-> fields]
       ELSE /\ outcome' = outcome
            /\ tag' = tag
            /\ lastOp' = [op |-> "no_id3v1"]
    /\ pc' = "returned"
    /\ UNCHANGED <<id3, ops, call, fh>>

\* the frames drawn: a title, a track number 0 or 1, a genre, a lyrics frame
\* (stored in extra); the ID3v1 fields drawn: a title with and without a NUL
\* byte inside, an artist, a comment, a track number, a genre of the list and
\* one beyond it
Id3Next ==
    \/ /\ pc = "idle"
       /\ \E filesize \in {128, 129} : Id3ParseTag(filesize)
    \/ /\ pc = "id3v2"
       /\ \E f \in {<<"TIT2", <<0, 120>>>>, <<"TRCK", <<0, 48>>>>, <<"TRCK", <<0, 49>>>>,
                    <<"TCON", <<0, 120>>>>, <<"USLT", <<0, 120>>>>} :
              Id3v2Frame(f[1], f[2])
    \/ /\ pc = "id3v2"
       /\ \E has_tag \in BOOLEAN,
             title \in {<<>>, <<97>>, <<97, 0, 98>>}, artist \in {<<>>, <<97>>},
             comment \in {<<>>, <<97>>}, last \in {<<0, 0>>, <<0, 5>>}, genre \in {1, 255} :
              Id3v1Trailer(has_tag, [title |-> title, artist |-> artist, album |-> <<>>,
                                     year |-> <<>>, comment |-> comment, last |-> last,
                                     genre |-> genre])

SpecId3 == Id3Init /\ [][Id3Next]_vars


----------------------------------------------------------------------------
(* _ID3._determine_duration: the walk over the MPEG frames *)

\* _SAMPLE_RATES, by MPEG version id (2.5, reserved, 2, 1) and sample rate id
SAMPLE_RATES ==
    << <<11025, 12000, 8000>>, <<0, 0, 0>>, <<22050, 24000, 16000>>, <<44100, 48000, 32000>> >>

\* _BITRATE_BY_VERSION_BY_LAYER, by MPEG version id, layer id and bitrate id
BITRATE_BY_VERSION_BY_LAYER ==
    LET V1L1 == <<0, 32, 64, 96, 128, 160, 192, 224, 256, 288, 320, 352, 384, 416, 448, 0>>
        V1L2 == <<0, 32, 48, 56, 64, 80, 96, 112, 128, 160, 192, 224, 256, 320, 384, 0>>
        V1L3 == <<0, 32, 40, 48, 56, 64, 80, 96, 112, 128, 160, 192, 224, 256, 320, 0>>
        V2L1 == <<0, 32, 48, 56, 64, 80, 96, 112, 128, 144, 160, 176, 192, 224, 256, 0>>
        V2L2 == <<0, 8, 16, 24, 32, 40, 48, 56, 64, 80, 96, 112, 128, 144, 160, 0>>
        V2L3 == V2L2
        NONE == <<0, 0, 0, 0, 0, 0, 0, 0, 0, 0, 0, 0, 0, 0, 0, 0>>
    IN << <<NONE, V2L3, V2L2, V2L1>>,
          <<NONE, NONE, NONE, NONE>>,
          <<NONE, V2L3, V2L2, V2L1>>,
          <<NONE, V1L3, V1L2, V1L1>> >>

SAMPLES_PER_FRAME == 1152

CHANNELS_PER_CHANNEL_MODE == <<2, 2, 2, 1>>

CBR_DETECTION_FRAME_COUNT == 5

\* (_MAX_ESTIMATION_SEC * 44100) // _SAMPLES_PER_FRAME
max_estimation_frames == (30 * 44100) \div SAMPLES_PER_FRAME

\* s.find(part, start, end): the lowest index (from 0) where part occurs in
\* s[start:end], -1 when there is none
Find(s, part, start, end) ==
    LET at == {i \in start..(end - Len(part)) : \A k \in 1..Len(part) : s[i + k] = part[k]}
    IN IF at = {} THEN -1 ELSE CHOOSE i \in at : \A j \in at : i <= j

\* unpack('>i', b)[0]: a signed big-endian integer of four bytes
UnpackI32(b) ==
    (IF b[1] >= 128 THEN b[1] - 256 ELSE b[1]) * 16777216 + b[2] * 65536 + b[3] * 256 + b[4]

\* the fields of a four-byte frame header
FrameHeader(header) ==
    [br_id |-> (header[3] \div 16) % 16,
     sr_id |-> (header[3] \div 4) % 4,
     padding |-> IF (header[3] \div 2) % 2 > 0 THEN 1 ELSE 0,
     mpeg_id |-> (header[2] \div 8) % 4,
     layer_id |-> (header[2] \div 2) % 4,
     channel_mode |-> (header[4] \div 64) % 4]

\* the test that rejects a candidate header: no eleven sync bits, another
\* MPEG version than the first frame counted (first_mpeg_id is -1 for None),
\* or a bitrate, sample rate, layer or version id that is not valid
InvalidFrame_FreeBitrate(header, first_mpeg_id) ==
    LET h == FrameHeader(header)
    IN \/ ~(header[1] = 255 /\ header[2] > 224)
       \/ (first_mpeg_id # -1 /\ first_mpeg_id # h.mpeg_id)
       \/ h.br_id > 14 \/ h.sr_id = 3 \/ h.layer_id = 0 \/ h.mpeg_id = 1

InvalidFrame(header, first_mpeg_id) ==
    LET h == FrameHeader(header)
    IN \/ ~(header[1] = 255 /\ header[2] > 224)
       \/ (first_mpeg_id # -1 /\ first_mpeg_id # h.mpeg_id)
       \/ h.br_id > 14 \/ h.br_id = 0 \/ h.sr_id = 3 \/ h.layer_id = 0 \/ h.mpeg_id = 1

\* _parse_xing_header on data at position pos (of the text 'Xing'): the four
\* bytes of the flags, then the frame count and the byte count when their
\* flag is set; unpack raises struct.error when the data ends before
parse_xing_header(data, pos) ==
    LET read(p) == SubSeq(data, p + 1, IF p + 4 < Len(data) THEN p + 4 ELSE Len(data))
        flags_at == pos + 4
        header_flags == UnpackI32(read(flags_at))
        has_frames == header_flags % 2 = 1
        has_bytes == (header_flags \div 2) % 2 = 1
        frames_at == flags_at + 4
        bytes_at == IF has_frames THEN frames_at + 4 ELSE frames_at
    IN IF Len(read(flags_at)) < 4 THEN [exc |-> "struct.error", frames |-> 0, byte_count |-> 0]
       ELSE IF (has_frames /\ Len(read(frames_at)) < 4)
                 \/ (has_bytes /\ Len(read(bytes_at)) < 4)
            THEN [exc |-> "struct.error", frames |-> 0, byte_count |-> 0]
            ELSE [exc |-> "None",
                  frames |-> IF has_frames THEN UnpackI32(read(frames_at)) ELSE 0,
                  byte_count |-> IF has_bytes THEN UnpackI32(read(bytes_at)) ELSE 0]

\* the pieces the files are made of: frames of 48, 49 and 96 bytes of MPEG 2
\* layer II at 24 kHz (8 and 16 kbit/s), a frame of MPEG 2.5, a frame cut
\* short, candidate headers the test rejects, bytes of garbage, and first
\* frames that hold the text 'Xing' with a whole or a truncated header
FramePieces ==
    LET zeros(n) == [i \in 1..n |-> 0]
        frame(conf, bitrate_freq, n) == <<255, conf, bitrate_freq, 0>> \o zeros(n - 4)
        xing(rest) == <<255, 242, 20, 192, 88, 105, 110, 103>> \o rest
    IN [main |-> {frame(242, 20, 48), frame(242, 36, 96)},
        other |-> {frame(242, 22, 49), frame(226, 20, 96), frame(242, 20, 10),
                   <<255, 242, 4, 0>>, <<255, 242, 244, 0>>, <<255, 242, 28, 0>>,
                   <<255, 240, 20, 0>>, <<255, 234, 20, 0>>, <<255, 224, 20, 0>>,
                   <<0>>, <<0, 255>>,
                   xing(<<0, 0, 0, 3, 0, 0, 0, 2, 0, 0, 0, 100>> \o zeros(28)),
                   xing(<<0, 0, 0, 3, 0, 0, 0, 0, 0, 0, 0, 100>> \o zeros(28)),
                   xing(<<0, 0, 0, 0>> \o zeros(36)),
                   xing(<<0, 0, 0, 1, 0, 0>>),
                   xing(<<>>)}]

\* the number of pieces of a file drawn from all the pieces, and from the
\* two main frames only
MaxPieces == 2
MaxFrames == 6

RECURSIVE Concat(_)
Concat(pieces) == IF pieces = <<>> THEN <<>> ELSE Head(pieces) \o Concat(Tail(pieces))

\* the files drawn (the bytes after the ID3v2 tag, here no tag)
FrameFiles ==
    {Concat(p) : p \in SeqsUpTo(FramePieces.main \cup FramePieces.other, MaxPieces)}
    \cup {Concat(p) : p \in UNION {[1..k -> FramePieces.main] : k \in (MaxPieces + 1)..MaxFrames}}

FramesInit ==
    /\ tag = EmptyTag
    /\ sub = EmptyTag
    /\ id3 = NoId3
    /\ ops = 0
    /\ lastOp = [op |-> "init"]
    /\ pc = "idle"
    /\ call = NoCall
    /\ fh = NoFile
    /\ outcome = <<>>

\* _determine_duration is called, tags not having been parsed, on a file that
\* has no ID3v2 tag: _parse_id3v2_header unpacks the first ten bytes (and
\* raises struct.error on less), _bytepos_after_id3v2 is 0 and the walker
\* holds the whole file
FramesCall(data) ==
    /\ pc = "idle"
    /\ call' = [active |-> TRUE, filesize |-> Len(data)]
    /\ tag' = [EmptyTag EXCEPT !.core["filesize"] = PyInt(Len(data))]
    /\ fh' = [data |-> data, pos |-> 0, frames |-> 0, first_mpeg_id |-> -1,
              bitrate_accu |-> 0, frame_size_accu |-> 0, last_bitrates |-> {},
              audio_offset |-> 0]
    /\ pc' = IF Len(data) < 10 THEN "struct.error" ELSE "walking"
    /\ lastOp' = [op |-> "_determine_duration"]
    /\ UNCHANGED <<sub, id3, ops, outcome>>

\* one turn of the loop `while True:` of the walk, with what follows the loop
\* when the turn leaves it.  outcome keeps the MPEG version id of every frame
\* counted
FrameWalk ==
    LET data == fh.data
        pos == fh.pos
        header == SubSeq(data, pos + 1, IF pos + 4 < Len(data) THEN pos + 4 ELSE Len(data))
        h == FrameHeader(header)
        \* idx = header.find(b'\xFF', 1), header_len when not found; header is
        \* data[pos:pos + 4] here
        idx == IF Find(data, <<255>>, pos + 1, pos + 4) = -1 THEN 4
               ELSE Find(data, <<255>>, pos + 1, pos + 4) - pos
        frame_bitrate == BITRATE_BY_VERSION_BY_LAYER[h.mpeg_id + 1][h.layer_id + 1][h.br_id + 1]
        samplerate == SAMPLE_RATES[h.mpeg_id + 1][h.sr_id + 1]
        frame_length == (144000 * frame_bitrate) \div samplerate + h.padding
        accepted == [tag EXCEPT
                        !.core["channels"] = PyInt(CHANNELS_PER_CHANNEL_MODE[h.channel_mode + 1]),
                        !.core["samplerate"] = PyInt(samplerate)]
        \* frame_content = walker.read(frame_length) is data[pos:frame_end]
        frame_end == IF pos + frame_length < Len(data) THEN pos + frame_length ELSE Len(data)
        samples_per_frame == IF h.mpeg_id <= 2 THEN 576 ELSE SAMPLES_PER_FRAME
        frames == fh.frames + 1
        bitrate_accu == fh.bitrate_accu + frame_bitrate
        audio_offset == IF frames = 1 THEN pos ELSE fh.audio_offset
        last_bitrates == IF frames <= CBR_DETECTION_FRAME_COUNT
                         THEN fh.last_bitrates \cup {frame_bitrate} ELSE fh.last_bitrates
        frame_size_accu == fh.frame_size_accu + frame_length
        is_cbr == frames = CBR_DETECTION_FRAME_COUNT /\ Cardinality(last_bitrates) = 1
        audio_stream_size == (call.filesize - 128) - audio_offset
    IN /\ pc = "walking"
       /\ lastOp' = [op |-> "walk", pos |-> pos]
       /\ IF Len(header) < 4
          THEN \* EOF: break, then the duration from the frames counted
               LET t1 == IF fh.frames # 0
                         THEN [tag EXCEPT !.core["bitrate"] = PyFloat(fh.bitrate_accu, fh.frames)]
                         ELSE tag
               IN /\ tag' = IF Truthy(t1.core["samplerate"])
                            THEN [t1 EXCEPT !.core["duration"] =
                                     PyFloat(fh.frames * SAMPLES_PER_FRAME,
                                             t1.core["samplerate"].v)]
                            ELSE t1
                  /\ pc' = "returned"
                  /\ UNCHANGED <<fh, outcome>>
          ELSE IF InvalidFrame(header, fh.first_mpeg_id)
          THEN \* invalid frame, find next sync header
               /\ fh' = [fh EXCEPT !.pos = pos + (IF idx > 1 THEN idx ELSE 1)]
               /\ UNCHANGED <<tag, pc, outcome>>
          ELSE \* the frame is accepted.  In the first frame the text 'Xing' is
               \* looked for: xing_at is walker_offset + frame_content.find(b'Xing')
               \E xing_at \in {IF fh.frames = 0
                                THEN Find(data, <<88, 105, 110, 103>>, pos, frame_end)
                                ELSE -1} :
               LET xing == parse_xing_header(data, xing_at) IN
               IF xing_at # -1 /\ xing.exc # "None"
               THEN /\ tag' = accepted
                    /\ pc' = xing.exc
                    /\ fh' = [fh EXCEPT !.first_mpeg_id = h.mpeg_id]
                    /\ UNCHANGED outcome
               ELSE IF xing_at # -1 /\ xing.frames > 0 /\ xing.byte_count > 0
               THEN /\ tag' = [accepted EXCEPT
                                 !.core["duration"] =
                                     PyFloat(xing.frames * samples_per_frame, samplerate),
                                 !.core["bitrate"] =
                                     PyFloat(xing.byte_count * 8 * samplerate,
                                             xing.frames * samples_per_frame * 1000)]
                    /\ pc' = "returned"
                    /\ fh' = [fh EXCEPT !.first_mpeg_id = h.mpeg_id]
                    /\ UNCHANGED outcome
               ELSE /\ outcome' = Append(outcome, h.mpeg_id)
                    /\ IF frames = max_estimation_frames \/ is_cbr
                       THEN \* try to estimate duration
                            /\ tag' = [accepted EXCEPT
                                         !.core["duration"] =
                                             PyFloat(audio_stream_size * frames * SAMPLES_PER_FRAME,
                                                     frame_size_accu * samplerate),
                                         !.core["bitrate"] = PyFloat(bitrate_accu, frames)]
                            /\ pc' = "returned"
                            /\ fh' = [fh EXCEPT !.first_mpeg_id = h.mpeg_id, !.frames = frames,
                                                !.bitrate_accu = bitrate_accu,
                                                !.audio_offset = audio_offset,
                                                !.last_bitrates = last_bitrates,
                                                !.frame_size_accu = frame_size_accu]
                       ELSE /\ tag' = accepted
                            /\ pc' = pc
                            /\ fh' = [fh EXCEPT !.first_mpeg_id = h.mpeg_id, !.frames = frames,
                                                !.bitrate_accu = bitrate_accu,
                                                !.audio_offset = audio_offset,
                                                !.last_bitrates = last_bitrates,
                                                !.frame_size_accu = frame_size_accu,
                                                !.pos = IF frame_length > 1 THEN pos + frame_length
                                                        ELSE pos]
       /\ UNCHANGED <<sub, id3, ops, call>>

FramesNext ==
    \/ /\ pc = "idle"
       /\ \E data \in FrameFiles : FramesCall(data)
    \/ FrameWalk

SpecFrames == FramesInit /\ [][FramesNext]_vars

\* the loop of the walk runs on until it returns or raises
SpecFramesFair == SpecFrames /\ WF_vars(FrameWalk)

----------------------------------------------------------------------------
(* Claims about the tag store *)

\* extra[name] of a tag, <<>> when the key is absent
ExtraOf(t, name) == GetList(t.extra, Plain(name))

Elems(seq) == {seq[i] : i \in 1..Len(seq)}

IsPrefix(a, b) == Len(a) <= Len(b) /\ SubSeq(b, 1, Len(a)) = a

NoDuplicates(seq) == \A i, j \in 1..Len(seq) : seq[i] = seq[j] => i = j

\* the last operation wrote string field f of `tag`
WroteCore(op, f) ==
    op.op = "set_field" /\ op.on = "tag" /\ op.field = CoreField(f)

\* C6: for every key k that is a set (non-empty) core string field and a
\* key of the extra map, the core value of k does not occur in the list
\* extra[k].
C6_CoreValueNotInExtra ==
    \A k \in StrFields :
        (IsStr(tag.core[k]) /\ Truthy(tag.core[k]) /\ Plain(k) \in DOMAIN tag.extra)
            => ~Contains(tag.extra[Plain(k)], tag.core[k].v)

\* C7: once an integer core field holds a non-zero integer, no later
\* _set_field or _update call changes it, whatever the new value is.
C7_NonZeroIntNeverChanges ==
    [][\A f \in IntFields :
          (tag.core[f].t = "int" /\ tag.core[f].v # 0) => tag'.core[f] = tag.core[f]]_vars

\* the segments of a written string that _set_field hands on to extra[f]
\* when core value `old` is set: all but a first segment equal to old
OverflowIndexes(old, v) ==
    LET segs == SplitNul(v)
    IN {j \in 1..Len(segs) : j > 1 \/ segs[1] # old}

OverflowSegments(old, v) == {SplitNul(v)[i] : i \in OverflowIndexes(old, v)}

\* position in the written string of the first overflow segment equal to x
FirstOverflow(old, v, x) ==
    CHOOSE i \in OverflowIndexes(old, v) :
        /\ SplitNul(v)[i] = x
        /\ \A j \in OverflowIndexes(old, v) : SplitNul(v)[j] = x => i <= j

C10_Step ==
    \A f \in StrFields :
        Truthy(tag.core[f]) =>
            LET old == ExtraOf(tag, f)
                new == ExtraOf(tag', f)
                added == SubSeq(new, Len(old) + 1, Len(new))
            IN /\ tag'.core[f] = tag.core[f]
               /\ IsPrefix(old, new)
               /\ WroteCore(lastOp', f) =>
                    LET v == lastOp'.value.v
                        cur == tag.core[f].v
                    IN /\ Elems(new) = Elems(old) \cup OverflowSegments(cur, v)
                       /\ NoDuplicates(added)
                       /\ Elems(added) \cap Elems(old) = {}
                       /\ \A i, j \in 1..Len(added) :
                            i < j => FirstOverflow(cur, v, added[i]) < FirstOverflow(cur, v, added[j])
                       /\ (FirstNul(v) = 0 /\ v # tag.core[f].v) =>
                            new = IF Contains(old, v) THEN old ELSE Append(old, v)

----------------------------------------------------------------------------
(* Claims about what the parsers store *)

\* C5: a scalar string field of the Tag (title, artist, albumartist,
\* composer, album, genre, comment, year) is never the empty string,
\* whatever entry a parser has read.
C5_NoEmptyStringField ==
    \A f \in StrFields : tag.core[f] # PyStr(<<>>)

\* C9: no value stored in any list of the extra map contains a NUL
\* character, whether it arrived through a core field or through a field
\* mapped to extra.<key>.
C9_NoNulInExtra ==
    \A k \in DOMAIN tag.extra :
        \A i \in 1..Len(tag.extra[k]) : ~Contains(tag.extra[k][i], NUL)

----------------------------------------------------------------------------
(* Claims about the FLAC merge *)

\* C8: when the ID3 values are merged after the last metadata block, every
\* core field the Vorbis comments have set, string or integer, keeps its
\* Vorbis value; an ID3 value lands only in a field that was unset.
C8_VorbisValuesSurviveId3 ==
    [][(pc = "blocks" /\ pc' = "done") =>
          \A f \in StrFields \cup IntFields :
              tag.core[f] # PyNone => tag'.core[f] = tag.core[f]]_vars

----------------------------------------------------------------------------
(* Claims about the dispatcher *)

\* get has left, and it had a byte source to work on
GetLeft == pc = "done" /\ outcome.kind # "ValueError"

\* C1: for every source of total size 0, get returns a Tag with
\* filesize = 0 and every other metadata field, the extra map and the
\* images unset or empty; no error is raised and the header of the file is
\* not read to select a parser, whatever the file name is.
C1_EmptySourceGivesEmptyTag ==
    (GetLeft /\ call.filesize = 0) =>
        /\ outcome = [kind |-> "returned",
                      tag |-> [EmptyTag EXCEPT !.core["filename"] = call.filename]]
        /\ fh.header_reads = 0

\* the parser classes one of whose extensions ends the lower-cased name
ClassesByExtension(filename) ==
    IF ~Truthy(filename) THEN {}
    ELSE {file_extension_mapping[i].tagclass :
            i \in {j \in 1..Len(file_extension_mapping) :
                     \E ext \in file_extension_mapping[j].ext :
                         EndsWith(Lower(filename.v), ext)}}

\* the parser classes one of whose signatures matches the start of the file
ClassesByMagic(content) ==
    {magic_bytes_mapping[i].parser :
       i \in {j \in 1..Len(magic_bytes_mapping) :
                Match(magic_bytes_mapping[j].sig, Take(content, MaxSigLen))}}

\* C2: once get has selected (or failed to select) a parser: a parser class
\* get was called on is used whatever the extension and the bytes are;
\* otherwise a class whose extension ends the file name, compared without
\* case, is used and the header is not read; the magic bytes decide only
\* when no extension matches; when nothing matches get raises
\* UnsupportedFormatError and returns no Tag.
C2_ParserPrecedence ==
    (call.active /\ pc \in {"load", "finally", "done"} /\ outcome.kind # "ValueError") =>
        IF call.cls # "TinyTag"
        THEN call.parser_class = call.cls /\ fh.header_reads = 0
        ELSE IF ClassesByExtension(call.filename) # {}
        THEN call.parser_class \in ClassesByExtension(call.filename) /\ fh.header_reads = 0
        ELSE IF ClassesByMagic(call.content) # {}
        THEN call.parser_class \in ClassesByMagic(call.content) /\ fh.header_reads = 1
        ELSE /\ call.parser_class = "None"
             /\ call.raised = "UnsupportedFormatError"
             /\ pc = "done" => outcome = [kind |-> "UnsupportedFormatError", tag |-> PyNone]

\* get called on TinyTag for "A.MP3" holding FLAC bytes has used _ID3 and
\* not read the header
C2_Witness ==
    /\ pc = "done"
    /\ call.cls = "TinyTag"
    /\ call.filename = PyStr(<<65, 46, 77, 80, 51>>)
    /\ call.content = <<102, 76, 97, 67>>
    /\ call.parser_class = "_ID3"
    /\ fh.header_reads = 0

\* C3: when get has left (by return, UnsupportedFormatError or
\* ParseError), the source is closed if and only if get opened it from a
\* path; a file_obj passed by the caller is not closed, with or without a
\* file name; and the source is not closed before get leaves.
C3_ClosedIffOpenedHere ==
    /\ GetLeft => /\ fh.closed <=> fh.opened_here
                  /\ call.file_obj => ~fh.closed
    /\ pc # "done" => ~fh.closed

\* get left with ParseError for a caller's file_obj passed with a file
\* name, and the file_obj is open
C3_Witness ==
    /\ GetLeft
    /\ outcome.kind = "ParseError"
    /\ call.file_obj
    /\ Truthy(call.filename)
    /\ ~fh.closed

\* C4: when the selected parser raised an exception while parsing a
\* non-empty source, get leaves with ParseError and hands no Tag to the
\* caller; ParseError leaves get in no other case.
C4_ParserExceptionBecomesParseError ==
    GetLeft =>
        /\ call.load_raised # "None" => outcome = [kind |-> "ParseError", tag |-> PyNone]
        /\ outcome.kind = "ParseError" => call.load_raised # "None" /\ call.filesize > 0

\* a parser that had stored a title divided by zero: get raised ParseError
C4_Witness ==
    /\ GetLeft
    /\ call.load_raised = "ZeroDivisionError"
    /\ tag.core["title"] = PyStr(<<97>>)
    /\ outcome.kind = "ParseError"

----------------------------------------------------------------------------
(* Claims about custom keys and the shape of the extra map *)

\* the Tag a recorded _set_field wrote to, before and after the step
WrittenBefore == IF lastOp'.on = "tag" THEN tag ELSE sub
WrittenAfter == IF lastOp'.on = "tag" THEN tag' ELSE sub'

\* C11: a write to 'extra.<key>' whose key is the name of a core field stores
\* the text under '_' + key and leaves every core field and the unprefixed
\* key as they were; the values a write to a core field moves to the extra
\* map go under the unprefixed key only.
C11_ConflictingKeyIsPrefixed ==
    [][(lastOp'.op = "set_field" /\ ops' = ops + 1) =>
          LET f == lastOp'.field
              v == lastOp'.value
              old == WrittenBefore
              new == WrittenAfter
              others(k) == \A x \in DOMAIN new.extra :
                               x # k => x \in DOMAIN old.extra /\ new.extra[x] = old.extra[x]
          IN /\ (f.extra /\ f.key.us = 0 /\ f.key.name \in PublicFields) =>
                    /\ new.core = old.core
                    /\ others(Underscore(f.key))
                    /\ IsStr(v) => Contains(GetList(new.extra, Underscore(f.key)), v.v)
             /\ (~f.extra) => others(f.key)
      ]_vars

\* a title with an overflow value under 'title' and a custom value under '_title'
C11_Witness ==
    /\ tag.core["title"] = PyStr(<<97>>)
    /\ Plain("title") \in DOMAIN tag.extra
    /\ Underscore(Plain("title")) \in DOMAIN tag.extra
    /\ lastOp.op = "set_field" /\ lastOp.field = ExtraField(Plain("title"))

\* every list of the extra map of t is non-empty, holds texts and no text twice
WellFormedExtra(t) ==
    \A k \in DOMAIN t.extra :
        /\ t.extra[k] # <<>>
        /\ \A i \in 1..Len(t.extra[k]) : t.extra[k][i] \in Seq(0..255)
        /\ NoDuplicates(t.extra[k])

\* the lists of old are kept, each one a prefix of what new holds under its key
ExtendsExtra(old, new) ==
    \A k \in DOMAIN old.extra :
        k \in DOMAIN new.extra /\ IsPrefix(old.extra[k], new.extra[k])

\* C12: in every state each key of the extra map holds a non-empty list of
\* strings without duplicates; a step only appends to the lists (their order
\* is the order of first insertion); and a write of a non-string value or of
\* a value the list already holds leaves the whole map unchanged.
C12_ExtraListsWellFormed ==
    /\ [](WellFormedExtra(tag) /\ WellFormedExtra(sub))
    /\ [][/\ ExtendsExtra(tag, tag')
          /\ (lastOp'.op = "set_field" /\ ops' = ops + 1) =>
                LET f == lastOp'.field
                    v == lastOp'.value
                    k == IF f.key \in InstanceDict THEN Underscore(f.key) ELSE f.key
                IN /\ ExtendsExtra(WrittenBefore, WrittenAfter)
                   /\ (f.extra /\ (~IsStr(v) \/ Contains(GetList(WrittenBefore.extra, k), v.v)))
                          => WrittenAfter.extra = WrittenBefore.extra
      ]_vars

\* a second, different value was appended to a key and a repeated one was not
C12_Witness ==
    /\ Len(ExtraOf(tag, "lyrics")) = 2
    /\ lastOp.op = "set_field" /\ lastOp.on = "tag"
    /\ lastOp.field = ExtraField(Plain("lyrics"))

----------------------------------------------------------------------------
(* Claims about the audio properties and the flags of _load *)

DescriptiveFields == StrFields \cup IntFields

\* the section the last step handled has the given id
HandledSection(ids) == lastOp.op = "section" /\ lastOp.section.id \in ids

\* C13: on every input for which the load returns a Tag, channels, samplerate
\* and bitdepth are at least 1 when set and duration is at least 0 when set.
C13_AudioPropertiesInRange ==
    pc = "returned" =>
        /\ \A f \in {"channels", "samplerate", "bitdepth"} :
               tag.core[f] # PyNone => tag.core[f].v >= 1
        /\ tag.core["duration"] # PyNone => tag.core["duration"].v >= 0

\* C14: with tags=False no descriptive field is set and the extra map stays
\* empty, in every parser and whatever the file holds.
C14_NoTagsWithoutTagsFlag ==
    (call.active /\ ~call.tags) =>
        /\ \A f \in DescriptiveFields : tag.core[f] = PyNone
        /\ tag.extra = EmptyDict

\* a load with tags=False has read a section that carries a tag: an embedded
\* ID3 segment, a comment block or packet, a second packet, a text chunk
C14_Witness ==
    /\ call.active /\ ~call.tags /\ call.duration
    /\ \/ HandledSection({"id3 ", "ID3 ", "ID3", "VORBIS_COMMENT", "\\x03vorbis",
                          "content_description", "NAME", "LIST"})
       \/ HandledSection({"other"}) /\ lastOp.section.block_type = 4
       \/ HandledSection({"\\x7fFLAC"}) /\ lastOp.section.block.id = "VORBIS_COMMENT"

\* C15: with duration=False none of duration, bitrate, channels, samplerate
\* and bitdepth is set, in every parser and whatever the file holds.
C15_NoAudioWithoutDurationFlag ==
    (call.active /\ ~call.duration) =>
        \A f \in AudioFields : tag.core[f] = PyNone

\* a load with duration=False has read a section that carries audio
\* properties, or is a WAVE load (whose default bit depth is conditional)
C15_Witness ==
    /\ call.active /\ call.tags /\ ~call.duration
    /\ \/ HandledSection({"fmt ", "data", "COMM", "STREAMINFO", "\\x01vorbis", "OpusHead",
                          "Speex   ", "\\x7fFLAC", "stream_properties", "file_property"})
       \/ pc = "returned" /\ call.parser \in {"_Wave", "_MP4", "_ID3"}


----------------------------------------------------------------------------
(* Claims about file type detection *)

\* C16: every source whose first four bytes are OggS and whose type is
\* looked up by magic bytes is given to the Ogg parser, whatever codec its
\* first packet carries.
C16_OggSDispatchedToOgg ==
    (/\ call.active
     /\ call.op \in {"_get_parser_for_file_handle", "_get_parser_class"}
     /\ fh.header_reads = 1
     /\ Take(call.header, 4) = <<79, 103, 103, 83>>)
        => outcome.parser = "_Ogg"

\* C17: the four size bytes are wildcards: RIFF, any four bytes and WAVE
\* select the WAVE parser, and FORM, any four bytes and AIFF or AIFC select
\* the AIFF parser, for every value 0..255 of each byte.
C17_SizeBytesAreWildcards ==
    (call.active /\ call.op = "_get_parser_for_file_handle" /\ Len(call.header) = 12) =>
        /\ (/\ Take(call.header, 4) = <<82, 73, 70, 70>>
            /\ Drop(call.header, 8) = <<87, 65, 86, 69>>) => outcome.parser = "_Wave"
        /\ (/\ Take(call.header, 4) = <<70, 79, 82, 77>>
            /\ Drop(call.header, 8) \in {<<65, 73, 70, 70>>, <<65, 73, 70, 67>>})
               => outcome.parser = "_Aiff"

\* C18: is_supported(p) is true exactly when the lower-cased name ends with
\* an entry of SUPPORTED_FILE_EXTENSIONS, and exactly when get selects a
\* parser for p by its extension, without reading the header.
C18_SupportedIffSelectedByExtension ==
    (call.active /\ call.op = "is_supported") =>
        LET listed == \E i \in 1..Len(SUPPORTED_FILE_EXTENSIONS) :
                          EndsWith(Lower(call.filename), SUPPORTED_FILE_EXTENSIONS[i])
            selected == get_parser_class("TinyTag", PyStr(call.filename), <<>>)
        IN /\ outcome.v = listed
           /\ outcome.v = (selected.parser # "None" /\ selected.header_reads = 0)

\* is_supported answered True for a name whose extension is in upper case
C18_Witness ==
    /\ call.active /\ call.op = "is_supported"
    /\ outcome.v
    /\ Lower(call.filename) # call.filename


----------------------------------------------------------------------------
(* Claims about the images of a tag *)

\* C19: after any sequence of image insertions and merges, each of the slots
\* front_cover, back_cover and media holds at most one image.
C19_SingleImageSlots ==
    \A s \in {"front_cover", "back_cover", "media"} : Len(tag.images.slots[s]) <= 1


----------------------------------------------------------------------------
(* Claims about concurrent calls *)

\* C20: under every interleaving of two calls of get on distinct sources,
\* each call ends as it ends when run alone: with the same parser class and
\* data atom decoder, or with the same UnsupportedFormatError; a race on the
\* initialisation of a class table never changes the selection.
C20_ConcurrentCallsIndependent ==
    \A t \in 1..2 :
        pc[t] = "done" =>
            LET c == call[t]
                alone == get_parser_class("TinyTag", c.filename, c.content).parser
                decoders == {atom_decoder_by_type[i].decoder :
                                 i \in {j \in 1..Len(atom_decoder_by_type) :
                                            atom_decoder_by_type[j].type = c.data_type}}
            IN outcome[t] =
                   [kind |-> IF alone = "None" THEN "UnsupportedFormatError" ELSE "returned",
                    parser |-> alone,
                    decoder |-> IF alone = "_MP4" /\ decoders # {}
                                THEN CHOOSE d \in decoders : TRUE ELSE "None"]

\* both calls have returned from different sources after both initialised
\* the same class table
C20_Witness ==
    /\ \A t \in 1..2 : pc[t] = "done" /\ outcome[t].kind = "returned"
    /\ call[1].filename # call[2].filename
    /\ call[1].assigned \cap call[2].assigned # {}
    /\ "atom_decoder_by_type" \in call[1].assigned \cup call[2].assigned

----------------------------------------------------------------------------
(* Claims about the Ogg pages *)

\* the packets the lacing values of these pages define: each ends with the
\* first lacing value below 255, wherever the page boundaries lie
LacingPackets(pages) ==
    LET RECURSIVE Flat(_)
        Flat(i) == IF i > Len(pages) THEN <<>> ELSE pages[i].segsizes \o Flat(i + 1)
        values == Flat(1)
        RECURSIVE Walk(_, _, _)
        Walk(i, start, len) ==
            IF i > Len(values) THEN <<>>
            ELSE IF values[i] < 255
                 THEN <<[start |-> start, len |-> len + values[i]]>>
                          \o Walk(i + 1, start + len + values[i], 0)
                 ELSE Walk(i + 1, start, len + 255)
    IN Walk(1, 0, 0)

\* C21: between two pages and at the end of the file, the packets yielded are
\* exactly the packets the lacing values read so far define: consecutive
\* segments up to and including the first whose lacing value is below 255
C21_PacketsFollowLacing ==
    (pc \in {"header", "returned"} /\ call # NoCall)
        => outcome = LacingPackets(SubSeq(call.pages, 1, fh.page))

----------------------------------------------------------------------------
(* Claims about the MP4 traversal *)

\* C22: a call made for a container atom reads atom headers only inside the
\* payload of that container, and has returned once the end of the container
\* is reached: it makes no read at or behind that end.  This is so for the
\* versioned atoms meta and stsd and behind an empty last child too
C22_HeadersInsideContainer ==
    call # NoCall =>
        \A i \in DOMAIN outcome :
            outcome[i].depth > 1 =>
                /\ outcome[i].pos < outcome[i].end
                /\ outcome[i].size = 8 =>
                       /\ outcome[i].first <= outcome[i].pos
                       /\ outcome[i].pos + 8 <= outcome[i].end

----------------------------------------------------------------------------
(* Claims about the genres *)

\* C23: after a TCON frame the genre is the name of the ID3v1 genre N only
\* when the whole decoded payload is "N" or "(N)" with N decimal and below the
\* length of the list of genres; every other payload is stored as it is
C23_GenreFromWholePayload ==
    (lastOp.op = "frame" /\ lastOp.field = "TCON") =>
        LET value == DecodeString(lastOp.data, FALSE)
            inner == IF Take(value, 1) = <<40>> /\ Len(value) > 1 /\ value[Len(value)] = 41
                     THEN SubSeq(value, 2, Len(value) - 1)
                     ELSE value
            is_id == IsDecimal(inner) /\ ParseInt(inner) < Len(ID3V1_GENRES)
        IN value # <<>> =>
               tag.core["genre"] = PyStr(IF is_id THEN ID3V1_GENRES[ParseInt(inner) + 1]
                                         ELSE value)

\* C26: a gnre atom with the 16-bit value v, the first atom of the file, sets
\* the genre to the name of genre v - 1 exactly when v is from 1 to the
\* length of the list of genres; for every other v the genre stays unset
C26_GnreAtomInRange ==
    (lastOp.op = "section" /\ call.parser = "_MP4" /\ lastOp.pass = "parse_tag"
         /\ lastOp.section.id = "gnre" /\ ops = 1)
        => LET v == lastOp.section.value
           IN tag.core["genre"] = IF 1 <= v /\ v <= Len(ID3V1_GENRES)
                                  THEN PyStr(ID3V1_GENRES[v])
                                  ELSE PyNone

----------------------------------------------------------------------------
(* Claims about the picture types *)

\* C24: whatever picture type is read, no error is raised and the image is
\* stored: under other for type 0, front_cover for 3, back_cover for 4, media
\* for 6, extra bright_colored_fish for 18, and under extra unknown for every
\* type beyond the list of types
C24_ImageRoutingTotal ==
    lastOp.op \in {"_parse_frame", "_parse_image"} =>
        LET p == lastOp.pic_type
            image(name) == <<[name |-> name, data |-> 1]>>
            slot(name) == tag.images.slots[name] = image(name)
            extra(name) == GetList(tag.images.extra, name) = image(name)
        IN /\ pc = "stored"
           /\ tag.images # EmptyImages
           /\ p = 0 => slot("other")
           /\ p = 3 => slot("front_cover")
           /\ p = 4 => slot("back_cover")
           /\ p = 6 => slot("media")
           /\ p = 18 => extra("bright_colored_fish")
           /\ p >= Len(IMAGE_TYPES) => extra("unknown")

----------------------------------------------------------------------------
(* Claims about the ASF objects *)

\* C25: once _Wma._parse_tag has read an object whose size exceeds the file
\* size, the call has failed with ParseError
C25_OversizeObjectRaises ==
    (lastOp.op = "section" /\ call.parser = "_Wma" /\ lastOp.section.id = "invalid"
         /\ lastOp.section.object_size > tag.core["filesize"].v)
        => pc = "ParseError"

----------------------------------------------------------------------------
(* Claims about the ID3v1 tag *)

\* C27: the ID3v2 tag is parsed before the ID3v1 tag, which is read only in
\* a file of more than 128 bytes and only fills gaps: each of title, artist,
\* album, year, comment, genre and track that the ID3v2 tag set keeps its
\* value, and the extra map is as the ID3v2 tag left it
C27_Id3v1OnlyFillsGaps ==
    pc = "returned" =>
        /\ outcome \in {<<"id3v2">>, <<"id3v2", "id3v1">>}
        /\ Len(outcome) = 2 => call.filesize > 128
        /\ \A f \in {"title", "artist", "album", "year", "comment", "genre", "track"} :
               sub.core[f] # PyNone => tag.core[f] = sub.core[f]
        /\ tag.extra = sub.extra


----------------------------------------------------------------------------
(* Claims about the passes of _load *)

\* C28: within one call the two operations run in order: _parse_tag, when
\* tags is requested, has returned before _determine_duration, when duration
\* is requested, is called; the source is at offset 0 whenever
\* _determine_duration is called; and _load calls no operation whose flag is
\* off
C28_PassesInOrder ==
    call.active =>
        LET trace == outcome.trace
            ops_called == SelectSeq(trace, LAMBDA e : e.op # "return")
            wanted == (IF call.tags THEN <<"_parse_tag">> ELSE <<>>)
                          \o (IF call.duration THEN <<"_determine_duration">> ELSE <<>>)
        IN /\ Len(ops_called) <= Len(wanted)
           /\ \A i \in 1..Len(ops_called) : ops_called[i].op = wanted[i]
           /\ \A i \in 1..Len(trace) :
                 trace[i].op = "_determine_duration" =>
                     /\ trace[i].pos = 0
                     /\ \A j \in 1..(i - 1) :
                           trace[j].op = "_parse_tag" => trace[j + 1].op = "return" /\ j + 1 < i
           /\ pc = "returned" => Len(ops_called) = Len(wanted)

\* both passes have run, _parse_tag having read part of the file
C28_Witness ==
    /\ pc = "returned"
    /\ call.tags /\ call.duration
    /\ Len(outcome.trace) = 4
    /\ outcome.trace[2].pos > 0
    /\ outcome.trace[3] = [op |-> "_determine_duration", pos |-> 0]


----------------------------------------------------------------------------
(* Claims about the FLAC metadata blocks *)

\* C29: a STREAMINFO block shorter than 34 bytes ends the reading of the
\* metadata blocks without an exception: duration, bitrate, channels,
\* samplerate and bitdepth are unset and no later block is read; and no
\* block is read after a block that has the last-block flag
C29_ShortStreaminfoStops ==
    [][(call.active /\ call.parser = "_Flac" /\ lastOp'.op = "section")
          => LET c == lastOp'.section
             IN /\ fh.stopped => tag' = tag /\ fh' = fh
                /\ (~fh.stopped /\ c.id = "STREAMINFO" /\ c.size < 34) =>
                      /\ pc' # "ParseError"
                      /\ fh'.stopped
                      /\ \A k \in {"duration", "bitrate", "channels", "samplerate", "bitdepth"} :
                            tag'.core[k] = PyNone
                /\ (~fh.stopped /\ "last" \in DOMAIN c /\ c.last /\ pc' # "ParseError") =>
                      fh'.stopped]_vars


----------------------------------------------------------------------------
(* Claims about the MPEG frame walk *)

\* C30: the walk over the frames ends on every file: every turn of the loop
\* returns, reaches the end of the data, or moves the read position forward
\* by at least one byte (a frame that is counted moves it by more than one),
\* and every frame counted has the MPEG version id of the first one counted
C30_FrameWalkTerminates ==
    /\ [][(pc = "walking" /\ lastOp'.op = "walk") =>
             /\ pc' = "returned" \/ (pc' = "walking" /\ fh'.pos >= fh.pos + 1)
             /\ (pc' = "walking" /\ outcome' # outcome) => fh'.pos > fh.pos + 1
             /\ \A i \in 1..Len(outcome') : outcome'[i] = outcome'[1]]_vars
    /\ (pc = "walking") ~> (pc = "returned")

\* C30, amended: the walk over the frames ends on every file: every turn of
\* the loop returns, reaches the end of the data, raises struct.error on a
\* Xing header that the end of the data cuts short (in the first frame only),
\* or moves the read position forward by at least one byte (a frame that is
\* counted moves it by more than one), and every frame counted has the MPEG
\* version id of the first one counted
C30_FrameWalkEndsOrAdvances ==
    /\ [][(pc = "walking" /\ lastOp'.op = "walk") =>
             /\ \/ pc' = "returned"
                \/ pc' = "struct.error" /\ fh.frames = 0
                \/ pc' = "walking" /\ fh'.pos >= fh.pos + 1
             /\ (pc' = "walking" /\ outcome' # outcome) => fh'.pos > fh.pos + 1
             /\ \A i \in 1..Len(outcome') : outcome'[i] = outcome'[1]]_vars
    /\ (pc = "walking") ~> (pc \in {"returned", "struct.error"})

\* the walk has skipped a candidate and then raised on a truncated Xing header
C30_Witness ==
    /\ pc = "struct.error"
    /\ lastOp = [op |-> "walk", pos |-> 4]
    /\ fh.first_mpeg_id = 2

====
